---- MODULE Spec2Model ----
(***************************************************************************)
(* Validation & Enrichment Engine of the Amazon product feed enricher.     *)
(*                                                                         *)
(* Strings are tuples of one-character strings, so that trim, case         *)
(* folding and the digit projections are computed and not assumed.  A      *)
(* record ("data") is a function from the field names it has to strings:   *)
(* data[f] of the source is undefined exactly when f is not in DOMAIN.     *)
(***************************************************************************)
EXTENDS Integers, Sequences, FiniteSets, TLC

(***************************************************************************)
(* Bounds of the model                                                     *)
(***************************************************************************)
MaxRows == 2
MaxRuns == 2
MaxEdits == 1
MaxCrossRows == 3
MaxCalls == 3
MaxLogins == 3
MaxTicks == 2
MaxRequests == 2

(***************************************************************************)
(* Strings                                                                 *)
(***************************************************************************)
UpperAlpha == <<"A","B","C","D","E","F","G","H","I","J","K","L","M",
                "N","O","P","Q","R","S","T","U","V","W","X","Y","Z">>
LowerAlpha == <<"a","b","c","d","e","f","g","h","i","j","k","l","m",
                "n","o","p","q","r","s","t","u","v","w","x","y","z">>
WhiteSpace == {" ", "\t"}

RECURSIVE TrimStart(_)
TrimStart(s) ==
  IF s = <<>> THEN <<>>
  ELSE IF Head(s) \in WhiteSpace THEN TrimStart(Tail(s)) ELSE s

RECURSIVE TrimEnd(_)
TrimEnd(s) ==
  IF s = <<>> THEN <<>>
  ELSE IF s[Len(s)] \in WhiteSpace THEN TrimEnd(SubSeq(s, 1, Len(s) - 1)) ELSE s

\* String.prototype.trim
Trim(s) == TrimEnd(TrimStart(s))

LowerChar(c) ==
  IF \E i \in 1..26 : UpperAlpha[i] = c
  THEN LowerAlpha[CHOOSE i \in 1..26 : UpperAlpha[i] = c]
  ELSE c

UpperChar(c) ==
  IF \E i \in 1..26 : LowerAlpha[i] = c
  THEN UpperAlpha[CHOOSE i \in 1..26 : LowerAlpha[i] = c]
  ELSE c

\* String.prototype.toLowerCase / toUpperCase
ToLowerCase(s) == [i \in 1..Len(s) |-> LowerChar(s[i])]
ToUpperCase(s) == [i \in 1..Len(s) |-> UpperChar(s[i])]

Digits == <<"0","1","2","3","4","5","6","7","8","9">>

IsDigit(c) == \E i \in 1..10 : Digits[i] = c
DigitVal(c) == (CHOOSE i \in 1..10 : Digits[i] = c) - 1

RECURSIVE DigitsToNat(_)
DigitsToNat(d) ==
  IF d = <<>> THEN 0 ELSE DigitsToNat(SubSeq(d, 1, Len(d) - 1)) * 10 + DigitVal(d[Len(d)])

\* A cell that holds a number instead of a string (a numeric spreadsheet
\* cell): the tag "number" followed by the digits. No string starts with the
\* tag, every character of a string being one element.
NumberCell(digits) == <<"number">> \o digits

\* null: a value of its own, the tag "null" being no character
NullValue == <<"null">>

IsString(v) == v = <<>> \/ Head(v) \notin {"number", "null"}

\* String(v) of a cell that holds a string or a number
ToStr(v) == IF IsString(v) THEN v ELSE Tail(v)

\* Number(v) of a present cell: the model's cells hold unsigned whole
\* numerals, with or without white space around them, or text that is no
\* numeral (NaN)
NumberOf(v) ==
  LET t == Trim(ToStr(v))
  IN IF t # <<>> /\ \A i \in 1..Len(t) : IsDigit(t[i])
     THEN [isNaN |-> FALSE, value |-> DigitsToNat(t)]
     ELSE [isNaN |-> TRUE]

\* String(undefined)
UndefinedString == <<"u","n","d","e","f","i","n","e","d">>

\* data[f] is truthy: present and not the empty string, null or 0
Truthy(data, f) ==
  f \in DOMAIN data /\ data[f] \notin {<<>>, NullValue, NumberCell(<<"0">>)}

\* String(data[f])
StringOf(data, f) == IF f \in DOMAIN data THEN data[f] ELSE UndefinedString

(***************************************************************************)
(* Field values used by the rows, brands and lookup entries of the model   *)
(***************************************************************************)
\* Str.X is the string named X
Str ==
  [P1 |-> <<"P","1">>,
   P1pad |-> <<"P","1"," ">>,
   C1 |-> <<"C","1">>,
   C2 |-> <<"C","2">>,
   C3 |-> <<"C","3">>,
   S1 |-> <<"S","1">>,
   S2 |-> <<"S","2">>,
   Blank |-> <<" ">>,
   X |-> <<"x">>,
   Parent |-> <<"P","a","r","e","n","t">>,
   parent |-> <<"p","a","r","e","n","t">>,
   child |-> <<"c","h","i","l","d">>,
   Size |-> <<"S","i","z","e">>,
   Color |-> <<"C","o","l","o","r">>,
   CECE |-> <<"C","E","C","E">>,
   ACME |-> <<"A","C","M","E">>,
   womens |-> <<"w","o","m","e","n","s">>,
   mens |-> <<"m","e","n","s">>,
   Navy |-> <<"N","a","v","y">>,
   Blue |-> <<"B","l","u","e">>,
   Azure |-> <<"A","z","u","r","e">>,
   M |-> <<"M">>,
   Medium |-> <<"M","e","d","i","u","m">>,
   SkuLower |-> <<" ","p","1">>,
   SkuSpaced |-> <<"A","B"," ","1">>,
   NameInner |-> <<"A"," "," ","B">>,
   NameOuter |-> <<" ","A"," "," ","B"," ">>,
   UpcValid |-> <<"0","3","6","0","0","0","2","9","1","4","5","2">>,
   UpcWrong |-> <<"0","3","6","0","0","0","2","9","1","4","5","3">>,
   UpcDashed |-> <<"0","-","3","6","0","0","0","-","2","9","1","4","5","-","2">>,
   NavyPad |-> <<"N","a","v","y"," ">>,
   PriceShort |-> <<"1","9",".","9">>,
   PriceCents |-> <<"2","0",".","0","0">>,
   PriceLong |-> <<"1","9",".","9","9","9">>,
   QtyFive |-> <<"5">>,
   QtyZeros |-> <<"0","0","7">>,
   QtyDecimal |-> <<"1","2",".","5">>,
   SkuPattern |-> <<"^","[","A","-","Z","0","-","9","-","]","+","$">>,
   OpenClass |-> <<"^","[","A","-","Z">>,
   abc |-> <<"a","b","c">>,
   LadiesShirt |-> <<"L","a","d","i","e","s"," ","s","h","i","r","t">>,
   QtyHuge |-> <<"1">> \o [i \in 1..21 |-> "0"]]

(***************************************************************************)
(* Rule repository (validation_rules table)                                *)
(***************************************************************************)
\* ruleConfig: {}
EmptyConfig == <<>>

RuleIds == {"r_sku", "r_brand", "r_dept", "r_pattern", "r_maxlen"}

\* Rules whose ruleConfig is not what their ruleType reads: a pattern that is
\* not a regular expression, a max that is not a number.
MalformedRules == {"r_pattern", "r_maxlen"}

\* A ValidationRule row; isActive is the part an administrator toggles and
\* is kept in the variable ruleActive.
RuleDefs ==
  [r \in RuleIds |->
     CASE r = "r_sku" ->
            [id |-> r, fieldName |-> "item_sku", ruleType |-> "required",
             ruleConfig |-> EmptyConfig, severity |-> "error",
             message |-> "SKU is required and must be unique", sortOrder |-> 1]
       [] r = "r_brand" ->
            [id |-> r, fieldName |-> "brand_name", ruleType |-> "lookup",
             ruleConfig |-> EmptyConfig, severity |-> "warning",
             message |-> "Brand is not a configured brand", sortOrder |-> 6]
       [] r = "r_dept" ->
            [id |-> r, fieldName |-> "department_name", ruleType |-> "lookup",
             ruleConfig |-> [table_type |-> "department"], severity |-> "error",
             message |-> "Department must be a valid Amazon department",
             sortOrder |-> 7]
       [] r = "r_pattern" ->
            [id |-> r, fieldName |-> "item_sku", ruleType |-> "regex",
             ruleConfig |-> [pattern |-> Str.OpenClass], severity |-> "error",
             message |-> "SKU has characters that are not allowed", sortOrder |-> 2]
       [] r = "r_maxlen" ->
            [id |-> r, fieldName |-> "item_sku", ruleType |-> "max_length",
             ruleConfig |-> [max |-> [string |-> Str.abc]], severity |-> "error",
             message |-> "SKU must not exceed {max} characters", sortOrder |-> 3]]

\* findMany({ where: { isActive: true }, orderBy: { sortOrder: 'asc' } })
RECURSIVE SortBySortOrder(_)
SortBySortOrder(S) ==
  IF S = {} THEN <<>>
  ELSE LET r == CHOOSE x \in S :
                  \A y \in S : RuleDefs[x].sortOrder <= RuleDefs[y].sortOrder
       IN <<r>> \o SortBySortOrder(S \ {r})

ActiveRules(active) == SortBySortOrder({r \in RuleIds : active[r]})

(***************************************************************************)
(* Lookup repository (lookup_tables, brand_configs)                        *)
(***************************************************************************)
NullBrand == [isNull |-> TRUE]
BrandOf(b) == [isNull |-> FALSE, value |-> b]

\* Every lookup entry the model's repositories can hold.
LookupUniverse ==
  { [tableType |-> "department", sourceValue |-> Str.womens, targetValue |-> Str.womens, brand |-> NullBrand,
      isActive |-> TRUE],
    [tableType |-> "department", sourceValue |-> Str.mens, targetValue |-> Str.mens, brand |-> NullBrand,
      isActive |-> TRUE],
    [tableType |-> "color_map", sourceValue |-> Str.Navy, targetValue |-> Str.Blue, brand |-> NullBrand,
      isActive |-> TRUE],
    [tableType |-> "color_map", sourceValue |-> Str.Navy, targetValue |-> Str.Azure, brand |-> BrandOf(Str.CECE),
      isActive |-> TRUE],
    [tableType |-> "size_map", sourceValue |-> Str.M, targetValue |-> Str.Medium, brand |-> NullBrand,
      isActive |-> TRUE] }

\* What the model's administrators activate and deactivate: the rule on
\* item_sku, the brand ACME and the department entry womens.
EditableRules == {"r_sku"}
EditableBrands == {Str.ACME}
EditableLookup == {e \in LookupUniverse : e.targetValue = Str.womens}

\* loadLookupTables: group the active entries' target values by table type
GroupLookup(entries) ==
  [t \in {e.tableType : e \in {x \in entries : x.isActive}} |->
     {e.targetValue : e \in {x \in entries : x.isActive /\ x.tableType = t}}]

(***************************************************************************)
(* Rows                                                                    *)
(***************************************************************************)
\* row.enrichedData || row.originalData
DataOf(row) == IF row.hasEnriched THEN row.enrichedData ELSE row.originalData

Issue(f, r, sev, msg) == [field |-> f, rule |-> r, severity |-> sev, message |-> msg]

(***************************************************************************)
(* Field Rule Evaluator                                                    *)
(***************************************************************************)
\* isFieldPresent without the trim of strings
IsFieldPresentUntrimmed(data, f) ==
  /\ f \in DOMAIN data
  /\ data[f] # NullValue
  /\ IsString(data[f]) => data[f] # <<>>

\* isFieldPresent(data[f]): data[f] is undefined for a column the record
\* does not have
IsFieldPresent(data, f) ==
  /\ f \in DOMAIN data
  /\ data[f] # NullValue
  /\ IsString(data[f]) => Trim(data[f]) # <<>>

ValidateBrand(brandName, brandNames) ==
  IF brandName = <<>> THEN FALSE ELSE Trim(brandName) \in brandNames

ValidateLookupValue(value, tableType, lookupTables) ==
  IF value = <<>> THEN FALSE
  ELSE IF tableType \notin DOMAIN lookupTables THEN FALSE
  ELSE Trim(value) \in lookupTables[tableType]

ValidateEnum(value, allowedValues) ==
  IF value = <<>> THEN FALSE
  ELSE \E i \in 1..Len(allowedValues) :
         ToUpperCase(allowedValues[i]) = ToUpperCase(Trim(value))

\* the multiplier taken from the index counted from the left
RECURSIVE BarcodeSumFromLeft(_, _)
BarcodeSumFromLeft(digits, i) ==
  IF i < 1 THEN 0
  ELSE DigitVal(digits[i]) * (IF (i - 1) % 2 = 0 THEN 3 ELSE 1)
         + BarcodeSumFromLeft(digits, i - 1)

\* the sum of validateBarcodeCheckDigit's loop, for i = digits.length - 1 down to 0
\* (digits is 1-based here, so position = Len(digits) - i)
RECURSIVE BarcodeSum(_, _)
BarcodeSum(digits, i) ==
  IF i < 1 THEN 0
  ELSE LET position == Len(digits) - i
           multiplier == IF position % 2 = 0 THEN 3 ELSE 1
       IN DigitVal(digits[i]) * multiplier + BarcodeSum(digits, i - 1)

ValidateBarcodeCheckDigit(barcode) ==
  LET cleanBarcode == Trim(barcode)
      n == Len(cleanBarcode)
  IN IF ~(n \in {12, 13} /\ \A i \in 1..n : IsDigit(cleanBarcode[i])) THEN FALSE
     ELSE LET checkDigit == DigitVal(cleanBarcode[n])
              digits == SubSeq(cleanBarcode, 1, n - 1)
              sum == BarcodeSum(digits, Len(digits))
              expectedCheckDigit == (10 - (sum % 10)) % 10
          IN checkDigit = expectedCheckDigit

\* a || b || '' over two field names
FirstTruthy(data, f, g) ==
  IF Truthy(data, f) THEN data[f] ELSE IF Truthy(data, g) THEN data[g] ELSE <<>>

\* String.prototype.includes
Includes(s, t) ==
  \E i \in 0..(Len(s) - Len(t)) : SubSeq(s, i + 1, i + Len(t)) = t

\* validateTitleQuality(title, data): the messages it collects; isValid is
\* issues.length === 0
ValidateTitleQuality(title, data) ==
  IF title = <<>> \/ Trim(title) = <<>> THEN <<>>
  ELSE
    LET trimmedTitle == Trim(title)
        lowerTitle == ToLowerCase(trimmedTitle)
        brandName == IF Truthy(data, "brand_name") THEN data["brand_name"] ELSE <<>>
        colorName == FirstTruthy(data, "color_name", "color_map")
        sizeName == FirstTruthy(data, "size_name", "size_map")
        material == FirstTruthy(data, "material", "material_type")
        Missing(v, msg) ==
          IF v # <<>> /\ Trim(v) # <<>> /\ ~Includes(lowerTitle, ToLowerCase(Trim(v)))
          THEN <<msg>> ELSE <<>>
        IsLetter(c) == \E i \in 1..26 : UpperAlpha[i] = c \/ LowerAlpha[i] = c
        lettersOnly == SelectSeq(trimmedTitle, IsLetter)
        IsMark(c) == c \in {"!", "?", ".", ",", ";", ":"}
        punctuationMarks == SelectSeq(trimmedTitle, IsMark)
        consecutive == \E i \in 1..(Len(trimmedTitle) - 1) :
                         IsMark(trimmedTitle[i]) /\ IsMark(trimmedTitle[i + 1])
    IN Missing(brandName, "Title is missing brand name")
         \o Missing(colorName, "Title is missing color")
         \o Missing(sizeName, "Title is missing size")
         \o Missing(material, "Title is missing material")
         \o (IF Len(lettersOnly) > 0 /\ lettersOnly = ToUpperCase(lettersOnly)
             THEN <<"Title contains all uppercase letters">> ELSE <<>>)
         \o (IF Len(punctuationMarks) > 3
             THEN <<"Title contains excessive punctuation">> ELSE <<>>)
         \o (IF consecutive
             THEN <<"Title contains excessive punctuation">> ELSE <<>>)

\* /<\/?[a-zA-Z][a-zA-Z0-9]*[^>]*>/.test(s): a "<", an optional "/", a
\* letter, and a ">" somewhere after it
HasHtmlTag(s) ==
  LET IsLetter(c) == \E k \in 1..26 : UpperAlpha[k] = c \/ LowerAlpha[k] = c
  IN \E i \in 1..Len(s) :
       /\ s[i] = "<"
       /\ \E j \in {i + 1, i + 2} :
            /\ j <= Len(s)
            /\ j = i + 2 => s[i + 1] = "/"
            /\ IsLetter(s[j])
            /\ \E k \in (j + 1)..Len(s) : s[k] = ">"

\* the limit validateDescription compares trimmedDesc.length with
MaxDescriptionLength == 2000

\* validateDescription(description): the messages it collects; isValid is
\* issues.length === 0
ValidateDescription(description) ==
  IF description = <<>> \/ Trim(description) = <<>>
  THEN <<"Description is required">>
  ELSE LET trimmedDesc == Trim(description)
       IN (IF Len(trimmedDesc) > MaxDescriptionLength
           THEN <<"Description must not exceed 2000 characters">> ELSE <<>>)
            \o (IF HasHtmlTag(trimmedDesc)
                THEN <<"Description must not contain HTML tags">> ELSE <<>>)

\* length > maxLength, maxLength being a JSON number or a JSON string: a
\* string that is no numeral converts to NaN and every comparison is false
ExceedsMax(length, max) ==
  IF "number" \in DOMAIN max THEN length > max.number
  ELSE /\ max.string # <<>>
       /\ \A i \in 1..Len(max.string) : IsDigit(max.string[i])
       /\ length > DigitsToNat(max.string)

\* new RegExp(pattern) succeeds. The patterns of the model are character-class
\* patterns ^[...]+$ ; a class that is not closed is a SyntaxError.
RegExpValid(pattern) ==
  \A i \in 1..Len(pattern) :
    pattern[i] = "[" => \E j \in (i + 1)..Len(pattern) : pattern[j] = "]"

\* pattern.test(s) for a valid pattern ^[class]+$
RegExpTest(pattern, s) ==
  LET close == CHOOSE j \in 1..Len(pattern) : pattern[j] = "]"
      class == SubSeq(pattern, 3, close - 1)
      order == <<"\t", " ", "-", ".">> \o Digits \o UpperAlpha \o LowerAlpha
      Code(c) == CHOOSE k \in 1..Len(order) : order[k] = c
      RECURSIVE InClass(_, _)
      InClass(c, i) ==
        IF i > Len(class) THEN FALSE
        ELSE IF i + 2 <= Len(class) /\ class[i + 1] = "-"
             THEN (Code(class[i]) <= Code(c) /\ Code(c) <= Code(class[i + 2]))
                    \/ InClass(c, i + 3)
             ELSE class[i] = c \/ InClass(c, i + 1)
  IN s # <<>> /\ \A i \in 1..Len(s) : InClass(s[i], 1)

\* applyRule(rule, row) throws: new RegExp on a pattern that is no regular
\* expression
ApplyRuleThrows(rule, row) ==
  /\ rule.ruleType = "regex"
  /\ IsFieldPresent(DataOf(row), rule.fieldName)
  /\ ~RegExpValid(rule.ruleConfig.pattern)

\* the function names the seeded custom rules carry in ruleConfig.function
SeedCustomFunctions ==
  {"validateUPCEAN", "checkTitleQuality", "checkBulletQuality",
   "checkDescriptionQuality", "checkPriceReasonableness"}

\* the function names the custom case of applyRule compares functionName with
DispatchedFunctions ==
  {"validateBulletPoints", "validateUPCCheckDigit", "validateBarcodeCheckDigit",
   "validateBarcodeType", "validateDescription", "validateDescriptionQuality",
   "validateBulletPointQuality", "validateURL", "validatePrice",
   "validateQuantity", "validatePriceReasonableness", "validateTitleQuality"}

\* applyRule(rule, row), reading this.brandNames and this.lookupTables
ApplyRule(rule, row, brandNames, lookupTables) ==
  LET data == DataOf(row)
      f == rule.fieldName
      cfg == rule.ruleConfig
      one == <<Issue(f, rule.id, rule.severity, rule.message)>>
  IN CASE rule.ruleType = "required" ->
            IF ~IsFieldPresent(data, f) THEN one ELSE <<>>
       [] rule.ruleType = "max_length" ->
            IF IsFieldPresent(data, f) /\ ExceedsMax(Len(ToStr(data[f])), cfg.max)
            THEN one ELSE <<>>
       [] rule.ruleType = "regex" ->
            IF IsFieldPresent(data, f) /\ ~RegExpTest(cfg.pattern, ToStr(data[f]))
            THEN one ELSE <<>>
       [] rule.ruleType = "range" ->
            IF IsFieldPresent(data, f) /\ ~NumberOf(data[f]).isNaN
            THEN LET numValue == NumberOf(data[f]).value
                 IN (IF "min" \in DOMAIN cfg /\ numValue < cfg.min THEN one ELSE <<>>)
                      \o (IF "max" \in DOMAIN cfg /\ numValue > cfg.max THEN one ELSE <<>>)
            ELSE <<>>
       [] rule.ruleType = "lookup" ->
            IF ~IsFieldPresent(data, f) THEN <<>>
            ELSE IF f = "brand_name"
                 THEN IF ~ValidateBrand(data[f], brandNames) THEN one ELSE <<>>
            ELSE IF "table_type" \in DOMAIN cfg
                 THEN IF ~ValidateLookupValue(data[f], cfg.table_type, lookupTables)
                      THEN one ELSE <<>>
            ELSE IF "values" \in DOMAIN cfg
                 THEN IF ~ValidateEnum(data[f], cfg.values) THEN one ELSE <<>>
            ELSE <<>>
       [] rule.ruleType = "custom" ->
            \* of the functions the dispatcher knows, the model's rules name
            \* the barcode check, the description check and the title check;
            \* a name it does not know yields nothing
            IF cfg.function \notin DispatchedFunctions THEN <<>>
            ELSE IF ~IsFieldPresent(data, f) THEN <<>>
            ELSE IF cfg.function \in {"validateUPCCheckDigit", "validateBarcodeCheckDigit"}
                 THEN IF ~ValidateBarcodeCheckDigit(ToStr(data[f])) THEN one ELSE <<>>
            ELSE IF cfg.function = "validateDescription"
                 THEN LET result == ValidateDescription(ToStr(data[f]))
                      IN [i \in 1..Len(result) |->
                            Issue(f, rule.id, rule.severity, result[i])]
            ELSE IF cfg.function = "validateTitleQuality"
                 THEN LET result == ValidateTitleQuality(ToStr(data[f]), data)
                      IN [i \in 1..Len(result) |->
                            Issue(f, rule.id, rule.severity, result[i])]
            ELSE <<>>
       [] OTHER -> <<>>

\* for (const rule of this.rules) allIssues.push(...this.applyRule(rule, row))
RECURSIVE ApplyRules(_, _, _, _)
ApplyRules(rules, row, brandNames, lookupTables) ==
  IF rules = <<>> THEN <<>>
  ELSE ApplyRule(RuleDefs[Head(rules)], row, brandNames, lookupTables)
         \o ApplyRules(Tail(rules), row, brandNames, lookupTables)

(***************************************************************************)
(* Lookup Enrichment and suggestions                                       *)
(***************************************************************************)
RECOMMENDED_OPTIONAL_FIELDS ==
  <<"bullet_point2", "bullet_point3", "bullet_point4", "bullet_point5",
    "other_image_url1", "other_image_url2", "material_type", "fabric_type",
    "care_instructions", "country_of_origin", "manufacturer">>

\* findFirst over the active entries; <<>> is null, <<t>> an entry's target
FindFirstTarget(entries, tableType, source, brand) ==
  LET hits == {e \in entries : /\ e.tableType = tableType
                               /\ e.sourceValue = source
                               /\ e.brand = brand
                               /\ e.isActive}
  IN IF hits = {} THEN <<>> ELSE <<(CHOOSE e \in hits : TRUE).targetValue>>

\* the generic entry looked up before the brand's
GetMappingGenericFirst(entries, tableType, name, brand) ==
  IF name = <<>> \/ Trim(name) = <<>> THEN <<>>
  ELSE LET normalized == Trim(name)
           genericMapping == FindFirstTarget(entries, tableType, normalized, NullBrand)
       IN IF genericMapping # <<>> \/ brand = <<>> THEN genericMapping
          ELSE FindFirstTarget(entries, tableType, normalized, BrandOf(brand))

\* getColorMapping / getSizeMapping share this body up to the table type;
\* brand is <<>> when the caller passes undefined
GetMapping(entries, tableType, name, brand) ==
  IF name = <<>> \/ Trim(name) = <<>> THEN <<>>
  ELSE LET normalized == Trim(name)
           brandMapping == IF brand # <<>>
                           THEN FindFirstTarget(entries, tableType, normalized, BrandOf(brand))
                           ELSE <<>>
       IN IF brandMapping # <<>> THEN brandMapping
          ELSE FindFirstTarget(entries, tableType, normalized, NullBrand)

GetColorMapping(entries, colorName, brand) == GetMapping(entries, "color_map", colorName, brand)
GetSizeMapping(entries, sizeName, brand) == GetMapping(entries, "size_map", sizeName, brand)

\* if (mapping): a non-null, non-empty target
MappingFound(m) == m # <<>> /\ m[1] # <<>>

Suggestion(f, v, c, r) == [field |-> f, suggestedValue |-> v, confidence |-> c, reason |-> r]

RECURSIVE OptionalFrom(_, _)
OptionalFrom(data, fields) ==
  IF fields = <<>> THEN <<>>
  ELSE LET f == Head(fields)
           isEmpty == f \notin DOMAIN data \/ data[f] \in {NullValue, <<>>}
       IN (IF isEmpty
           THEN <<Suggestion(f, <<>>, "low", "Recommended optional field is missing")>>
           ELSE <<>>) \o OptionalFrom(data, Tail(fields))

GetOptionalFieldSuggestions(data) == OptionalFrom(data, RECOMMENDED_OPTIONAL_FIELDS)

\* The word lists of inferDepartment and the departments it returns.
Indicators ==
  [unisex |-> {<<"u","n","i","s","e","x">>,
      <<"g","e","n","d","e","r"," ","n","e","u","t","r","a","l">>,
      <<"a","l","l"," ","g","e","n","d","e","r">>},
   kids |-> {<<"k","i","d","s">>, <<"c","h","i","l","d">>,
      <<"c","h","i","l","d","r","e","n">>, <<"y","o","u","t","h">>,
      <<"j","u","n","i","o","r">>},
   kidsSizes |-> {<<"2","t">>, <<"3","t">>, <<"4","t">>, <<"5","t">>, <<"6">>, <<"7">>,
      <<"8">>, <<"1","0">>, <<"1","2">>, <<"1","4">>, <<"1","6">>},
   baby |-> {<<"b","a","b","y">>, <<"i","n","f","a","n","t">>,
      <<"n","e","w","b","o","r","n">>, <<"o","n","e","s","i","e">>,
      <<"b","o","d","y","s","u","i","t">>, <<"r","o","m","p","e","r">>},
   babyGirls |-> {<<"g","i","r","l">>, <<"g","i","r","l","s">>, <<"p","i","n","k">>,
      <<"p","r","i","n","c","e","s","s">>, <<"d","r","e","s","s">>},
   babyBoys |-> {<<"b","o","y">>, <<"b","o","y","s">>, <<"b","l","u","e">>},
   girls |-> {<<"g","i","r","l">>, <<"g","i","r","l","s">>, <<"p","i","n","k">>,
      <<"p","r","i","n","c","e","s","s">>, <<"d","r","e","s","s">>,
      <<"s","k","i","r","t">>},
   boys |-> {<<"b","o","y">>, <<"b","o","y","s">>},
   womens |-> {<<"w","o","m","e","n">>, <<"w","o","m","e","n","s">>,
      <<"w","o","m","e","n","'","s">>, <<"l","a","d","i","e","s">>,
      <<"f","e","m","a","l","e">>},
   mens |-> {<<"m","e","n">>, <<"m","e","n","s">>, <<"m","e","n","'","s">>,
      <<"m","a","l","e">>, <<"g","e","n","t","l","e","m","a","n">>},
   womensClothing |-> {<<"d","r","e","s","s">>, <<"b","l","o","u","s","e">>,
      <<"s","k","i","r","t">>, <<"l","e","g","g","i","n","g","s">>,
      <<"t","u","n","i","c">>},
   mensClothing |-> {<<"s","u","i","t">>, <<"t","i","e">>, <<"t","u","x","e","d","o">>}]

Department ==
  [unisex_child |-> <<"u","n","i","s","e","x","-","c","h","i","l","d">>,
   unisex_adult |-> <<"u","n","i","s","e","x","-","a","d","u","l","t">>,
   baby_girls |-> <<"b","a","b","y","-","g","i","r","l","s">>,
   baby_boys |-> <<"b","a","b","y","-","b","o","y","s">>,
   girls |-> <<"g","i","r","l","s">>,
   boys |-> <<"b","o","y","s">>,
   mens |-> <<"m","e","n","s">>,
   womens |-> <<"w","o","m","e","n","s">>]

\* list.some(indicator => text.includes(indicator))
SomeIncluded(list, text) == \E indicator \in list : Includes(text, indicator)

\* (data.f || data.g || '').toString().toLowerCase().trim()
LowerText(data, f, g) == Trim(ToLowerCase(ToStr(FirstTruthy(data, f, g))))

\* the text inferDepartment searches
AllText(data) ==
  LowerText(data, "clothing_type", "garment_type") \o <<" ">>
    \o LowerText(data, "size_name", "size") \o <<" ">>
    \o LowerText(data, "item_name", "title") \o <<" ">>
    \o LowerText(data, "product_description", "description")

\* inferDepartment(data); NullValue when it cannot infer
InferDepartment(data) ==
  LET clothingType == LowerText(data, "clothing_type", "garment_type")
      sizeName == LowerText(data, "size_name", "size")
      allText == AllText(data)
      Has(list) == SomeIncluded(list, allText)
      hasKids == Has(Indicators.kids) \/ SomeIncluded(Indicators.kidsSizes, sizeName)
      hasWomensClothingType == SomeIncluded(Indicators.womensClothing, clothingType)
      hasMensClothingType == SomeIncluded(Indicators.mensClothing, clothingType)
  IN IF Has(Indicators.unisex)
     THEN IF hasKids THEN Department.unisex_child ELSE Department.unisex_adult
     ELSE IF Has(Indicators.baby)
     THEN IF Has(Indicators.babyGirls) /\ ~Has(Indicators.babyBoys) THEN Department.baby_girls
          ELSE IF Has(Indicators.babyBoys) /\ ~Has(Indicators.babyGirls)
               THEN Department.baby_boys
          ELSE Department.baby_girls
     ELSE IF hasKids
     THEN IF Has(Indicators.girls) /\ ~Has(Indicators.boys) THEN Department.girls
          ELSE IF Has(Indicators.boys) /\ ~Has(Indicators.girls) THEN Department.boys
          ELSE Department.girls
     ELSE IF Has(Indicators.mens) /\ ~Has(Indicators.womens) THEN Department.mens
     ELSE IF Has(Indicators.womens) /\ ~Has(Indicators.mens) THEN Department.womens
     ELSE IF hasMensClothingType /\ ~hasWomensClothingType THEN Department.mens
     ELSE IF hasWomensClothingType /\ ~hasMensClothingType THEN Department.womens
     ELSE IF clothingType # <<>> THEN Department.womens
     ELSE NullValue

\* itemTypeMap: each key with the first of its keywords, in the order of the
\* object literal
ItemTypeMap ==
  <<<<<<"s","h","i","r","t">>, <<"s","h","i","r","t","s">>>>,
    <<<<"b","l","o","u","s","e">>, <<"b","l","o","u","s","e","s">>>>,
    <<<<"t","-","s","h","i","r","t">>, <<"t","-","s","h","i","r","t","s">>>>,
    <<<<"t","e","e">>, <<"t","-","s","h","i","r","t","s">>>>,
    <<<<"t","a","n","k">>, <<"t","a","n","k","-","t","o","p","s">>>>,
    <<<<"s","w","e","a","t","e","r">>, <<"s","w","e","a","t","e","r","s">>>>,
    <<<<"c","a","r","d","i","g","a","n">>, <<"c","a","r","d","i","g","a","n","s">>>>,
    <<<<"h","o","o","d","i","e">>, <<"h","o","o","d","i","e","s">>>>,
    <<<<"s","w","e","a","t","s","h","i","r","t">>, <<"s","w","e","a","t","s","h","i","r","t","s">>>>,
    <<<<"p","o","l","o">>, <<"p","o","l","o","-","s","h","i","r","t","s">>>>,
    <<<<"t","u","n","i","c">>, <<"t","u","n","i","c","s">>>>,
    <<<<"p","a","n","t","s">>, <<"p","a","n","t","s">>>>,
    <<<<"j","e","a","n","s">>, <<"j","e","a","n","s">>>>,
    <<<<"t","r","o","u","s","e","r","s">>, <<"t","r","o","u","s","e","r","s">>>>,
    <<<<"s","h","o","r","t","s">>, <<"s","h","o","r","t","s">>>>,
    <<<<"s","k","i","r","t">>, <<"s","k","i","r","t","s">>>>,
    <<<<"l","e","g","g","i","n","g","s">>, <<"l","e","g","g","i","n","g","s">>>>,
    <<<<"d","r","e","s","s">>, <<"d","r","e","s","s","e","s">>>>,
    <<<<"g","o","w","n">>, <<"g","o","w","n","s">>>>,
    <<<<"j","a","c","k","e","t">>, <<"j","a","c","k","e","t","s">>>>,
    <<<<"c","o","a","t">>, <<"c","o","a","t","s">>>>,
    <<<<"b","l","a","z","e","r">>, <<"b","l","a","z","e","r","s">>>>,
    <<<<"v","e","s","t">>, <<"v","e","s","t","s">>>>,
    <<<<"p","a","r","k","a">>, <<"p","a","r","k","a","s">>>>,
    <<<<"a","t","h","l","e","t","i","c">>, <<"a","c","t","i","v","e","w","e","a","r">>>>,
    <<<<"s","p","o","r","t","s">>, <<"a","c","t","i","v","e","w","e","a","r">>>>,
    <<<<"y","o","g","a">>, <<"y","o","g","a","-","a","p","p","a","r","e","l">>>>,
    <<<<"r","u","n","n","i","n","g">>, <<"r","u","n","n","i","n","g","-","a","p","p","a","r","e","l">>>>,
    <<<<"p","a","j","a","m","a">>, <<"p","a","j","a","m","a","s">>>>,
    <<<<"n","i","g","h","t","g","o","w","n">>, <<"n","i","g","h","t","g","o","w","n","s">>>>,
    <<<<"r","o","b","e">>, <<"r","o","b","e","s">>>>,
    <<<<"u","n","d","e","r","w","e","a","r">>, <<"u","n","d","e","r","w","e","a","r">>>>,
    <<<<"b","r","a">>, <<"b","r","a","s">>>>,
    <<<<"p","a","n","t","i","e","s">>, <<"p","a","n","t","i","e","s">>>>,
    <<<<"b","o","x","e","r","s">>, <<"b","o","x","e","r","s">>>>,
    <<<<"b","r","i","e","f","s">>, <<"b","r","i","e","f","s">>>>,
    <<<<"s","w","i","m","s","u","i","t">>, <<"s","w","i","m","w","e","a","r">>>>,
    <<<<"b","i","k","i","n","i">>, <<"b","i","k","i","n","i","s">>>>,
    <<<<"s","w","i","m">>, <<"s","w","i","m","w","e","a","r">>>>,
    <<<<"s","c","a","r","f">>, <<"s","c","a","r","v","e","s">>>>,
    <<<<"h","a","t">>, <<"h","a","t","s">>>>,
    <<<<"g","l","o","v","e","s">>, <<"g","l","o","v","e","s">>>>,
    <<<<"b","e","l","t">>, <<"b","e","l","t","s">>>>,
    <<<<"t","i","e">>, <<"t","i","e","s">>>>,
    <<<<"s","u","i","t">>, <<"s","u","i","t","s">>>>,
    <<<<"t","u","x","e","d","o">>, <<"t","u","x","e","d","o","s">>>>>>

\* inferItemType(data)[0]: the first keyword of the first key the text
\* includes; NullValue when inferItemType returns null
InferItemType(data) ==
  LET clothingType == Trim(ToLowerCase(FirstTruthy(data, "clothing_type", "garment_type")))
      itemName == Trim(ToLowerCase(FirstTruthy(data, "item_name", "title")))
      description == Trim(ToLowerCase(FirstTruthy(data, "product_description", "description")))
      allText == clothingType \o <<" ">> \o itemName \o <<" ">> \o description
      matching == {k \in 1..Len(ItemTypeMap) : Includes(allText, ItemTypeMap[k][1])}
  IN IF clothingType = <<>> /\ itemName = <<>> THEN NullValue
     ELSE IF matching = {} THEN NullValue
     ELSE ItemTypeMap[CHOOSE k \in matching : \A j \in matching : k <= j][2]

\* getEnrichmentSuggestions(data) rejects: getColorMapping calls trim() on a
\* truthy colorName before its try block, inferDepartment and inferItemType
\* call toLowerCase() on clothing_type, item_name and product_description;
\* a number has neither method. (Sizes are converted with toString() first.)
GetEnrichmentSuggestionsThrows(data) ==
  LET colorName == FirstTruthy(data, "color_name", "color")
  IN \/ colorName # <<>> /\ ~Truthy(data, "color_map") /\ ~IsString(colorName)
     \/ /\ ~Truthy(data, "department_name") \/ ~Truthy(data, "item_type")
        /\ \/ ~IsString(FirstTruthy(data, "clothing_type", "garment_type"))
           \/ ~IsString(FirstTruthy(data, "item_name", "title"))
           \/ ~IsString(FirstTruthy(data, "product_description", "description"))

\* getEnrichmentSuggestions: lookup suggestions, the inferred department and
\* item type, then the optional-field ones
GetEnrichmentSuggestions(entries, data) ==
  LET brand == FirstTruthy(data, "brand_name", "brand")
      colorName == FirstTruthy(data, "color_name", "color")
      sizeName == FirstTruthy(data, "size_name", "size")
      colorMapping == GetColorMapping(entries, colorName, brand)
      sizeMapping == GetSizeMapping(entries, sizeName, brand)
      color == IF colorName # <<>> /\ ~Truthy(data, "color_map") /\ MappingFound(colorMapping)
               THEN <<Suggestion("color_map", colorMapping[1], "high", "Mapped from color_name")>>
               ELSE <<>>
      size == IF sizeName # <<>> /\ ~Truthy(data, "size_map") /\ MappingFound(sizeMapping)
              THEN <<Suggestion("size_map", sizeMapping[1], "high", "Mapped from size_name")>>
              ELSE <<>>
      department == IF ~Truthy(data, "department_name") /\ InferDepartment(data) # NullValue
                    THEN <<Suggestion("department_name", InferDepartment(data), "medium",
                                      "Inferred from product attributes")>>
                    ELSE <<>>
      itemType == IF ~Truthy(data, "item_type") /\ InferItemType(data) # NullValue
                  THEN <<Suggestion("item_type", InferItemType(data), "medium",
                                    "Inferred from clothing_type")>>
                  ELSE <<>>
  IN color \o size \o department \o itemType \o GetOptionalFieldSuggestions(data)

\* every suggestion turned into an info issue
SuggestionIssuesUnfiltered(suggestions) ==
  [i \in 1..Len(suggestions) |->
     Issue(suggestions[i].field, "optional_field_suggestion", "info", suggestions[i].reason)]

\* the suggestions validate turns into info issues
RECURSIVE SuggestionIssues(_)
SuggestionIssues(suggestions) ==
  IF suggestions = <<>> THEN <<>>
  ELSE LET sg == Head(suggestions)
       IN (IF sg.confidence = "low" /\ sg.suggestedValue = <<>>
           THEN <<Issue(sg.field, "optional_field_suggestion", "info", sg.reason)>>
           ELSE <<>>) \o SuggestionIssues(Tail(suggestions))

(***************************************************************************)
(* Cross-Record Relationship Validator                                     *)
(***************************************************************************)
\* Map.get(k) || []  and  Map.set(k, v)
MapGet(m, k) == IF k \in DOMAIN m THEN m[k] ELSE <<>>
MapSet(m, k, v) == [x \in (DOMAIN m) \cup {k} |-> IF x = k THEN v ELSE m[x]]

\* parentChild && String(parentChild).trim().toLowerCase() === kind
MarkedAs(data, kind) ==
  Truthy(data, "parent_child") /\ ToLowerCase(Trim(data["parent_child"])) = kind

\* ParentSkus without the test of the parent mark
ParentSkusAnyRow(rows) ==
  {Trim(DataOf(rows[i])["item_sku"]) :
     i \in {j \in 1..Len(rows) : Truthy(DataOf(rows[j]), "item_sku")}}

\* parentSkus: the trimmed item_sku of every row marked parent
ParentSkus(rows) ==
  {Trim(DataOf(rows[i])["item_sku"]) :
     i \in {j \in 1..Len(rows) : /\ Truthy(DataOf(rows[j]), "item_sku")
                                 /\ MarkedAs(DataOf(rows[j]), Str.parent)}}

\* skuToRow.get(sku): the last row that set the key
SkuToRowIndexes(rows, sku) ==
  {j \in 1..Len(rows) : /\ Truthy(DataOf(rows[j]), "item_sku")
                        /\ Trim(DataOf(rows[j])["item_sku"]) = sku}

SkuToRow(rows, sku) ==
  LET js == SkuToRowIndexes(rows, sku)
  IN rows[CHOOSE j \in js : \A k \in js : k <= j]

ThemeIssue ==
  Issue("variation_theme", "variation_theme_consistency", "error",
        "Child variation_theme does not match parent variation_theme")

\* the issues the child branch collects for row i
ChildIssues(rows, i) ==
  LET data == DataOf(rows[i])
  IN IF ~Truthy(data, "parent_sku") \/ Trim(data["parent_sku"]) = <<>>
     THEN <<Issue("parent_sku", "parent_child_referential_integrity", "error",
                  "Child items must have a parent_sku")>>
     ELSE LET parentSkuValue == Trim(data["parent_sku"])
          IN IF parentSkuValue \notin ParentSkus(rows)
             THEN <<Issue("parent_sku", "parent_child_referential_integrity", "error",
                          "Child SKU references non-existent parent SKU")>>
             ELSE IF SkuToRowIndexes(rows, parentSkuValue) = {} THEN <<>>
             ELSE LET parentData == DataOf(SkuToRow(rows, parentSkuValue))
                  IN IF /\ Truthy(data, "variation_theme")
                        /\ Truthy(parentData, "variation_theme")
                        /\ Trim(data["variation_theme"]) # Trim(parentData["variation_theme"])
                     THEN <<ThemeIssue>>
                     ELSE <<>>

\* rows.filter(...) of the parent branch: the children of row i, in row order
IsChildOf(rows, c, i) ==
  LET childData == DataOf(rows[c])
  IN /\ Truthy(childData, "parent_sku")
     /\ Trim(childData["parent_sku"]) = Trim(StringOf(DataOf(rows[i]), "item_sku"))
     /\ MarkedAs(childData, Str.child)

\* for (const child of children): push a theme issue on the child's list
RECURSIVE ParentPass(_, _, _, _)
ParentPass(rows, i, c, acc) ==
  IF c > Len(rows) THEN acc
  ELSE LET childData == DataOf(rows[c])
           parentTheme == Trim(DataOf(rows[i])["variation_theme"])
           flagged == /\ IsChildOf(rows, c, i)
                      /\ Truthy(childData, "variation_theme")
                      /\ Trim(childData["variation_theme"]) # parentTheme
       IN ParentPass(rows, i, c + 1,
                     IF flagged
                     THEN MapSet(acc, rows[c].id, Append(MapGet(acc, rows[c].id), ThemeIssue))
                     ELSE acc)

\* one iteration of the second loop of validateParentChildRelationships
CrossStep(rows, i, acc) ==
  LET data == DataOf(rows[i])
  IN IF ~Truthy(data, "parent_child") THEN acc
     ELSE LET afterChild ==
                IF MarkedAs(data, Str.child) /\ Len(ChildIssues(rows, i)) > 0
                THEN MapSet(acc, rows[i].id, ChildIssues(rows, i))
                ELSE acc
          IN IF MarkedAs(data, Str.parent) /\ Truthy(data, "variation_theme")
             THEN ParentPass(rows, i, 1, afterChild)
             ELSE afterChild

RECURSIVE CrossLoop(_, _, _)
CrossLoop(rows, i, acc) ==
  IF i > Len(rows) THEN acc ELSE CrossLoop(rows, i + 1, CrossStep(rows, i, acc))

\* validateParentChildRelationships(rows): row id -> issues, for the rows
\* that have any
ValidateParentChildRelationships(rows) == CrossLoop(rows, 1, <<>>)

(***************************************************************************)
(* Validation Orchestrator: state                                          *)
(***************************************************************************)
VARIABLES
  ruleActive,    \* validation_rules.isActive, by rule id
  dbBrands,      \* brand names of the active brand_configs rows
  dbLookup,      \* the active lookup_tables rows
  rowsOf,        \* upload_rows by upload id, in rowNumber order
  uploads,       \* uploads rows: status and summary counts
  rules,         \* ValidationEngine.rules of the shared engine
  brandNames,    \* ValidationEngine.brandNames
  lookupTables,  \* ValidationEngine.lookupTables
  run,           \* the locals of the validate(uploadId) call in progress
  trace,         \* history: what each run loaded and evaluated against
  nRuns,         \* validate calls made so far
  nEdits         \* administrator edits made so far

VARIABLES
  crossRows,     \* rows handed to validateParentChildRelationships
  crossIssues,   \* the map it returned
  crossDone,     \* whether it has been called
  crossAgain     \* a second call, on the same rows in another order

VARIABLES
  fixInput,      \* the record applyAutoFix is first called with
  fixStage,      \* how many applyAutoFix calls have returned
  fixOut1,       \* what applyAutoFix(fixInput) returned
  fixOut2        \* what applyAutoFix(fixOut1.fixedData) returned

VARIABLES
  heap,          \* the objects and arrays the enrichment calls work on
  cur,           \* the record's current enriched data (an object of heap)
  last,          \* history: the last call, its argument and the heap before it
  nCalls         \* enrichment calls made so far

VARIABLES
  callIn,        \* the arguments of the function call under study
  callOut        \* what the call returned, once it has returned

VARIABLES
  account,       \* the users row of the account that logs in
  clock,         \* now: the time new Date() and Date.now() read, in minutes;
                 \* ticks: how often it has advanced
  logins,        \* the locals of each login(email, password) call
  authLog        \* history: the login calls that have ended, in order, and
                 \* the lockedUntil last written by a failed login

crossVars == <<crossRows, crossIssues, crossDone, crossAgain>>

fixVars == <<fixInput, fixStage, fixOut1, fixOut2>>

heapVars == <<heap, cur, last, nCalls>>

callVars == <<callIn, callOut>>

authVars == <<account, clock, logins, authLog>>

VARIABLES
  templates,     \* the mapping_templates table: template id -> userId, isDefault
  requests       \* the POST and PUT /api/mappings requests and where each one is

mappingVars == <<templates, requests>>

otherVars == <<callVars, authVars, mappingVars>>

pureVars == <<crossVars, fixVars, heapVars, otherVars>>

engineVars == <<ruleActive, dbBrands, dbLookup, rowsOf, uploads, rules,
                brandNames, lookupTables, run, trace, nRuns, nEdits>>

Uploads == {"U1", "U2"}

RowIdsOf == [u \in Uploads |->
               IF u = "U1" THEN <<"a1", "a2", "a3", "a4">>
                           ELSE <<"b1", "b2", "b3", "b4">>]

AllOptional == [f \in {RECOMMENDED_OPTIONAL_FIELDS[i] : i \in 1..Len(RECOMMENDED_OPTIONAL_FIELDS)} |-> Str.X]

\* The rows an upload of the model can hold, in file order: a parent, a child
\* of it with another variation theme, a row of an unknown brand, a row with
\* optional fields and the department missing, a row with a blank SKU.
RowCatalogue ==
  <<[item_sku |-> Str.P1, brand_name |-> Str.CECE, department_name |-> Str.womens,
     parent_child |-> Str.Parent, variation_theme |-> Str.Size] @@ AllOptional,
    [item_sku |-> Str.C1, brand_name |-> Str.CECE, department_name |-> Str.womens,
     parent_child |-> Str.child, parent_sku |-> Str.P1, variation_theme |-> Str.Color,
     color_name |-> Str.Navy] @@ AllOptional,
    [item_sku |-> Str.S1, brand_name |-> Str.ACME, department_name |-> Str.womens,
     manufacturer |-> <<>>] @@ AllOptional,
    [item_sku |-> Str.S2, brand_name |-> Str.CECE, item_name |-> Str.LadiesShirt,
     bullet_point2 |-> Str.X, size_name |-> Str.M],
    [item_sku |-> Str.Blank, brand_name |-> Str.CECE, department_name |-> Str.womens]
      @@ AllOptional>>

RECURSIVE PickRows(_)
PickRows(S) ==
  IF S = {} THEN <<>>
  ELSE LET i == CHOOSE x \in S : \A y \in S : x <= y
       IN <<RowCatalogue[i]>> \o PickRows(S \ {i})

\* every selection of at most n catalogue rows, kept in file order
RowLists(n) ==
  {PickRows(S) : S \in {T \in SUBSET (1..Len(RowCatalogue)) : Cardinality(T) <= n}}

NewRow(u, i, data) ==
  [id |-> RowIdsOf[u][i], rowNumber |-> i, originalData |-> data,
   hasEnriched |-> FALSE, enrichedData |-> <<>>,
   validationResults |-> <<>>, status |-> "pending"]

IdleRun == [pc |-> "idle", uploadRows |-> <<>>, idx |-> 0, allIssues |-> <<>>,
            rowIssuesMap |-> <<>>, passCount |-> 0, errorCount |-> 0,
            warningCount |-> 0, result |-> <<>>]

\* startRules: the rules active in the repository when the run read them, or,
\* for a run that skips loadRules, when it was called
\* errors: what was thrown or rejected inside the run, in order
NoTrace == [startRules |-> <<>>, ownRules |-> FALSE, loadedBrands |-> {},
            loadedLookup |-> <<>>, evaluated |-> <<>>, errors |-> <<>>]

\* The result of an enrichment call that has not been made.
NoResult == [fixedData |-> <<>>, fixes |-> <<>>]

EmptyHeap == [objs |-> <<>>, lists |-> <<>>]

NoCall == [op |-> "none", input |-> 0, output |-> 0, before |-> EmptyHeap,
           changes |-> <<>>]

\* No function call is under study / the call has not returned.
NotCalled == [fn |-> "none"]

NotReturned == [returned |-> FALSE]

\* prisma/schema: failedLogins defaults to 0, lockedUntil to null, isActive to true
NewAccount == [failedLogins |-> 0, lockedUntil |-> <<>>, isActive |-> TRUE]

StartOfTime == [now |-> 0, ticks |-> 0]

NoAuthLog == [ended |-> <<>>, lockEnd |-> <<>>]

\* The engine as constructed, over repositories as seeded and no rows yet.
EngineIdle ==
  /\ ruleActive = [r \in RuleIds |-> r \notin MalformedRules]
  /\ dbBrands = {Str.CECE}
  /\ dbLookup = LookupUniverse
  /\ rowsOf = [u \in Uploads |-> <<>>]
  /\ uploads = [u \in Uploads |-> [status |-> "pending", passCount |-> 0,
                                   warningCount |-> 0, errorCount |-> 0]]
  /\ rules = <<>>
  /\ brandNames = {}
  /\ lookupTables = <<>>
  /\ run = [u \in Uploads |-> IdleRun]
  /\ trace = [u \in Uploads |-> NoTrace]
  /\ nRuns = 0
  /\ nEdits = 0

\* Every part of the program but the part named is as constructed.
IdleExcept(part) ==
  /\ IF part # "engine" THEN EngineIdle ELSE TRUE
  /\ IF part # "cross"
     THEN /\ crossRows = <<>> /\ crossIssues = <<>> /\ crossDone = FALSE
          /\ crossAgain = NotReturned
     ELSE TRUE
  /\ IF part # "fix"
     THEN fixInput = <<>> /\ fixStage = 0 /\ fixOut1 = NoResult /\ fixOut2 = NoResult
     ELSE TRUE
  /\ IF part # "heap"
     THEN heap = EmptyHeap /\ cur = 0 /\ last = NoCall /\ nCalls = 0 ELSE TRUE
  /\ IF part # "call" THEN callIn = NotCalled /\ callOut = NotReturned ELSE TRUE
  /\ IF part # "auth"
     THEN account = NewAccount /\ clock = StartOfTime /\ logins = <<>> /\ authLog = NoAuthLog
     ELSE TRUE
  /\ IF part # "mappings" THEN templates = <<>> /\ requests = <<>> ELSE TRUE

Init ==
  /\ ruleActive = [r \in RuleIds |-> r \notin MalformedRules]
  /\ dbBrands = {Str.CECE}
  /\ dbLookup = LookupUniverse
  /\ \E l1 \in RowLists(MaxRows) :
       rowsOf = [u \in Uploads |->
                   LET l == IF u = "U1" THEN l1 ELSE <<>>
                   IN [i \in 1..Len(l) |-> NewRow(u, i, l[i])]]
  /\ uploads = [u \in Uploads |-> [status |-> "pending", passCount |-> 0,
                                   warningCount |-> 0, errorCount |-> 0]]
  /\ rules = <<>>
  /\ brandNames = {}
  /\ lookupTables = <<>>
  /\ run = [u \in Uploads |-> IdleRun]
  /\ trace = [u \in Uploads |-> NoTrace]
  /\ nRuns = 0
  /\ nEdits = 0
  /\ IdleExcept("engine")

(***************************************************************************)
(* Validation Orchestrator: validate(uploadId)                             *)
(* One action per await: the awaited call completes and the code runs on   *)
(* to the next await.                                                      *)
(***************************************************************************)
HasSeverity(issues, sev) == \E i \in 1..Len(issues) : issues[i].severity = sev

\* StatusOf with every issue, info included, counting as a warning
StatusOfInfoWarns(issues) ==
  IF HasSeverity(issues, "error") THEN "error"
  ELSE IF Len(issues) > 0 THEN "warning"
  ELSE "pass"

\* the status validate derives from a row's issue list
StatusOf(issues) ==
  IF HasSeverity(issues, "error") THEN "error"
  ELSE IF HasSeverity(issues, "warning") THEN "warning"
  ELSE "pass"

\* Tally without a counter of its own for warning rows
TallyWarningAsPass(r, status) ==
  CASE status = "error" -> [r EXCEPT !.errorCount = @ + 1]
    [] OTHER -> [r EXCEPT !.passCount = @ + 1]

\* errorCount++ / warningCount++ / passCount++ of the update loop
Tally(r, status) ==
  CASE status = "error" -> [r EXCEPT !.errorCount = @ + 1]
    [] status = "warning" -> [r EXCEPT !.warningCount = @ + 1]
    [] OTHER -> [r EXCEPT !.passCount = @ + 1]

\* the parent-child issues left out of the map
MergeIssuesDropped(rowIssuesMap, parentChildIssues) == rowIssuesMap

\* rowIssuesMap after the parent-child issues are merged in
MergeIssues(rowIssuesMap, parentChildIssues) ==
  [k \in (DOMAIN rowIssuesMap) \cup (DOMAIN parentChildIssues) |->
     IF k \in DOMAIN parentChildIssues
     THEN MapGet(rowIssuesMap, k) \o parentChildIssues[k]
     ELSE rowIssuesMap[k]]

\* A number that is a quotient of two integers, kept as the quotient.
Ratio(n, d) == [num |-> n, den |-> d]
SameNumber(a, b) == a.num * b.den = b.num * a.den

\* HealthScore as the plain ratio, without the factor 100
HealthScoreRatio(passCount, totalRows) ==
  IF totalRows > 0 THEN Ratio(passCount, totalRows) ELSE Ratio(0, 1)

\* totalRows > 0 ? (passCount / totalRows) * 100 : 0
HealthScore(passCount, totalRows) ==
  IF totalRows > 0 THEN Ratio(passCount * 100, totalRows) ELSE Ratio(0, 1)

\* what applyRule reads from the engine when a row is evaluated
EvalContext == [rules |-> rules, brandNames |-> brandNames, lookupTables |-> lookupTables]

\* some rule of the loop over this.rules throws on the row
RulesThrow(ruleIds, row) ==
  \E i \in 1..Len(ruleIds) : ApplyRuleThrows(RuleDefs[ruleIds[i]], row)

\* the error is caught and the run goes on to the summary update
RejectedButContinues(r, error) == [r EXCEPT !.pc = "updateUpload"]

\* the promise of validate is rejected with the error: nothing after the
\* throwing statement runs
Rejected(r, error) == [r EXCEPT !.pc = "failed", !.result = [error |-> error]]

\* validate is called: the check of this.rules.length
Validate(u) ==
  /\ run[u].pc \in {"idle", "done", "failed"}
  /\ nRuns < MaxRuns
  /\ nRuns' = nRuns + 1
  /\ run' = [run EXCEPT ![u] =
               [IdleRun EXCEPT !.pc = IF Len(rules) = 0 THEN "loadRules" ELSE "loadBrands"]]
  /\ trace' = [trace EXCEPT ![u] = [NoTrace EXCEPT !.startRules = ActiveRules(ruleActive)]]
  /\ UNCHANGED <<ruleActive, dbBrands, dbLookup, rowsOf, uploads, rules,
                 brandNames, lookupTables, nEdits>>
  /\ UNCHANGED pureVars

LoadRules(u) ==
  /\ run[u].pc = "loadRules"
  /\ rules' = ActiveRules(ruleActive)
  /\ trace' = [trace EXCEPT ![u].startRules = ActiveRules(ruleActive),
                            ![u].ownRules = TRUE]
  /\ run' = [run EXCEPT ![u].pc = "loadBrands"]
  /\ UNCHANGED <<ruleActive, dbBrands, dbLookup, rowsOf, uploads,
                 brandNames, lookupTables, nRuns, nEdits>>
  /\ UNCHANGED pureVars

LoadBrands(u) ==
  /\ run[u].pc = "loadBrands"
  /\ brandNames' = dbBrands
  /\ trace' = [trace EXCEPT ![u].loadedBrands = dbBrands]
  /\ run' = [run EXCEPT ![u].pc = "loadLookupTables"]
  /\ UNCHANGED <<ruleActive, dbBrands, dbLookup, rowsOf, uploads, rules,
                 lookupTables, nRuns, nEdits>>
  /\ UNCHANGED pureVars

LoadLookupTables(u) ==
  /\ run[u].pc = "loadLookupTables"
  /\ lookupTables' = GroupLookup(dbLookup)
  /\ trace' = [trace EXCEPT ![u].loadedLookup = GroupLookup(dbLookup)]
  /\ run' = [run EXCEPT ![u].pc = "findRows"]
  /\ UNCHANGED <<ruleActive, dbBrands, dbLookup, rowsOf, uploads, rules,
                 brandNames, nRuns, nEdits>>
  /\ UNCHANGED pureVars

\* uploadRow.findMany resolves; the first pass runs up to its first await
FindRows(u) ==
  /\ run[u].pc = "findRows"
  /\ LET rows == rowsOf[u]
     IN IF Len(rows) = 0
        THEN /\ run' = [run EXCEPT ![u].pc = "updateUpload",
                                   ![u].uploadRows = rows,
                                   ![u].rowIssuesMap =
                                      MergeIssues(<<>>, ValidateParentChildRelationships(rows))]
             /\ UNCHANGED trace
        ELSE IF RulesThrow(rules, rows[1])
        THEN /\ run' = [run EXCEPT ![u] = Rejected(@, "SyntaxError")]
             /\ trace' = [trace EXCEPT ![u].errors = Append(@, "SyntaxError")]
        ELSE /\ run' = [run EXCEPT ![u].pc = "suggest",
                                   ![u].uploadRows = rows,
                                   ![u].idx = 1,
                                   ![u].allIssues =
                                      ApplyRules(rules, rows[1], brandNames, lookupTables)]
             /\ trace' = [trace EXCEPT ![u].evaluated = Append(@, EvalContext)]
  /\ UNCHANGED <<ruleActive, dbBrands, dbLookup, rowsOf, uploads, rules,
                 brandNames, lookupTables, nRuns, nEdits>>
  /\ UNCHANGED pureVars

\* getEnrichmentSuggestions resolves for row idx; the loop goes on to the
\* next row's rules, or past the last row to the second pass
Suggest(u) ==
  /\ run[u].pc = "suggest"
  /\ LET r == run[u]
         rows == r.uploadRows
         row == rows[r.idx]
         allIssues == r.allIssues \o
                        SuggestionIssues(GetEnrichmentSuggestions(dbLookup, DataOf(row)))
         map == MapSet(r.rowIssuesMap, row.id, allIssues)
     IN IF GetEnrichmentSuggestionsThrows(DataOf(row))
        THEN /\ run' = [run EXCEPT ![u] = Rejected(@, "TypeError")]
             /\ trace' = [trace EXCEPT ![u].errors = Append(@, "TypeError")]
        ELSE IF r.idx < Len(rows) /\ RulesThrow(rules, rows[r.idx + 1])
        THEN /\ run' = [run EXCEPT ![u] = Rejected([@ EXCEPT !.rowIssuesMap = map],
                                                    "SyntaxError")]
             /\ trace' = [trace EXCEPT ![u].errors = Append(@, "SyntaxError")]
        ELSE IF r.idx < Len(rows)
        THEN /\ run' = [run EXCEPT ![u].rowIssuesMap = map,
                                   ![u].idx = r.idx + 1,
                                   ![u].allIssues =
                                      ApplyRules(rules, rows[r.idx + 1], brandNames, lookupTables)]
             /\ trace' = [trace EXCEPT ![u].evaluated = Append(@, EvalContext)]
        ELSE /\ run' = [run EXCEPT ![u].rowIssuesMap =
                                      MergeIssues(map, ValidateParentChildRelationships(rows)),
                                   ![u].idx = 1,
                                   ![u].allIssues = <<>>,
                                   ![u].pc = "updateRow"]
             /\ UNCHANGED trace
  /\ UNCHANGED <<ruleActive, dbBrands, dbLookup, rowsOf, uploads, rules,
                 brandNames, lookupTables, nRuns, nEdits>>
  /\ UNCHANGED pureVars

\* one iteration of the update loop: status, count, uploadRow.update
UpdateRow(u) ==
  /\ run[u].pc = "updateRow"
  /\ LET r == run[u]
         row == r.uploadRows[r.idx]
         allIssues == MapGet(r.rowIssuesMap, row.id)
         status == StatusOf(allIssues)
     IN /\ rowsOf' = [rowsOf EXCEPT ![u][r.idx].validationResults = allIssues,
                                    ![u][r.idx].status = status]
        /\ run' = [run EXCEPT
                     ![u] = [Tally(r, status) EXCEPT
                               !.idx = IF r.idx < Len(r.uploadRows) THEN r.idx + 1 ELSE r.idx,
                               !.pc = IF r.idx < Len(r.uploadRows)
                                      THEN "updateRow" ELSE "updateUpload"]]
  /\ UNCHANGED <<ruleActive, dbBrands, dbLookup, uploads, rules,
                 brandNames, lookupTables, trace, nRuns, nEdits>>
  /\ UNCHANGED pureVars

\* the summary written to every upload, as an update without its where clause
UpdateUploadEvery(u) ==
  /\ run[u].pc = "updateUpload"
  /\ LET r == run[u]
         totalRows == Len(r.uploadRows)
     IN /\ uploads' = [v \in Uploads |->
                         [status |-> "completed", passCount |-> r.passCount,
                          warningCount |-> r.warningCount, errorCount |-> r.errorCount]]
        /\ run' = [run EXCEPT
                     ![u].pc = "done",
                     ![u].result =
                        [uploadId |-> u, totalRows |-> totalRows,
                         passCount |-> r.passCount, errorCount |-> r.errorCount,
                         warningCount |-> r.warningCount,
                         healthScore |-> HealthScore(r.passCount, totalRows)]]
  /\ UNCHANGED <<ruleActive, dbBrands, dbLookup, rowsOf, rules,
                 brandNames, lookupTables, trace, nRuns, nEdits>>
  /\ UNCHANGED pureVars

\* upload.update and the returned ValidationResult
UpdateUpload(u) ==
  /\ run[u].pc = "updateUpload"
  /\ LET r == run[u]
         totalRows == Len(r.uploadRows)
     IN /\ uploads' = [uploads EXCEPT ![u] =
                         [status |-> "completed", passCount |-> r.passCount,
                          warningCount |-> r.warningCount, errorCount |-> r.errorCount]]
        /\ run' = [run EXCEPT
                     ![u].pc = "done",
                     ![u].result =
                        [uploadId |-> u, totalRows |-> totalRows,
                         passCount |-> r.passCount, errorCount |-> r.errorCount,
                         warningCount |-> r.warningCount,
                         healthScore |-> HealthScore(r.passCount, totalRows)]]
  /\ UNCHANGED <<ruleActive, dbBrands, dbLookup, rowsOf, rules,
                 brandNames, lookupTables, trace, nRuns, nEdits>>
  /\ UNCHANGED pureVars

(***************************************************************************)
(* Administrator edits of the repositories                                 *)
(***************************************************************************)
ToggleRule(r) ==
  /\ nEdits < MaxEdits
  /\ nEdits' = nEdits + 1
  /\ ruleActive' = [ruleActive EXCEPT ![r] = ~@]
  /\ UNCHANGED <<dbBrands, dbLookup, rowsOf, uploads, rules, brandNames,
                 lookupTables, run, trace, nRuns>>
  /\ UNCHANGED pureVars

EditBrand(b) ==
  /\ nEdits < MaxEdits
  /\ nEdits' = nEdits + 1
  /\ dbBrands' = IF b \in dbBrands THEN dbBrands \ {b} ELSE dbBrands \cup {b}
  /\ UNCHANGED <<ruleActive, dbLookup, rowsOf, uploads, rules, brandNames,
                 lookupTables, run, trace, nRuns>>
  /\ UNCHANGED pureVars

EditLookup(e) ==
  /\ nEdits < MaxEdits
  /\ nEdits' = nEdits + 1
  /\ dbLookup' = IF e \in dbLookup THEN dbLookup \ {e} ELSE dbLookup \cup {e}
  /\ UNCHANGED <<ruleActive, dbBrands, rowsOf, uploads, rules, brandNames,
                 lookupTables, run, trace, nRuns>>
  /\ UNCHANGED pureVars

Next ==
  \/ \E u \in Uploads : Validate(u)
  \/ \E u \in Uploads : LoadRules(u)
  \/ \E u \in Uploads : LoadBrands(u)
  \/ \E u \in Uploads : LoadLookupTables(u)
  \/ \E u \in Uploads : FindRows(u)
  \/ \E u \in Uploads : Suggest(u)
  \/ \E u \in Uploads : UpdateRow(u)
  \/ \E u \in Uploads : UpdateUpload(u)
  \/ \E r \in EditableRules : ToggleRule(r)
  \/ \E b \in EditableBrands : EditBrand(b)
  \/ \E e \in EditableLookup : EditLookup(e)

vars == <<engineVars, pureVars>>

Spec == Init /\ [][Next]_vars

(***************************************************************************)
(* validate(uploadId) under faults: rules with a malformed ruleConfig, a   *)
(* spreadsheet row with a numeric cell, repository calls that fail         *)
(***************************************************************************)
\* the row lists of Init, and the same with a numeric color_name cell (and
\* no color_map) in their last row
FaultRowLists ==
  RowLists(MaxRows) \cup
    {[l EXCEPT ![Len(l)] = [f \in (DOMAIN @ \cup {"color_name"}) \ {"color_map"} |->
                              IF f = "color_name" THEN NumberCell(<<"8">>) ELSE @[f]]] :
       l \in RowLists(MaxRows) \ {<<>>}}

InitFault ==
  /\ \E M \in SUBSET MalformedRules : ruleActive = [r \in RuleIds |-> r \notin M]
  /\ dbBrands = {Str.CECE}
  /\ dbLookup = LookupUniverse
  /\ \E l1 \in FaultRowLists :
       rowsOf = [u \in Uploads |->
                   LET l == IF u = "U1" THEN l1 ELSE <<>>
                   IN [i \in 1..Len(l) |-> NewRow(u, i, l[i])]]
  /\ uploads = [u \in Uploads |-> [status |-> "pending", passCount |-> 0,
                                   warningCount |-> 0, errorCount |-> 0]]
  /\ rules = <<>>
  /\ brandNames = {}
  /\ lookupTables = <<>>
  /\ run = [u \in Uploads |-> IdleRun]
  /\ trace = [u \in Uploads |-> NoTrace]
  /\ nRuns = 0
  /\ nEdits = 0
  /\ IdleExcept("engine")

\* The prisma call validate is awaiting rejects. (The lookups inside
\* getEnrichmentSuggestions catch their own errors.)
RepositoryFails(u) ==
  /\ run[u].pc \in {"loadRules", "loadBrands", "loadLookupTables", "findRows",
                     "updateRow", "updateUpload"}
  /\ run' = [run EXCEPT ![u] = Rejected(@, "PrismaClientError")]
  /\ trace' = [trace EXCEPT ![u].errors = Append(@, "PrismaClientError")]
  /\ UNCHANGED <<ruleActive, dbBrands, dbLookup, rowsOf, uploads, rules,
                 brandNames, lookupTables, nRuns, nEdits>>
  /\ UNCHANGED pureVars

NextFault ==
  \/ \E u \in Uploads : Validate(u)
  \/ \E u \in Uploads : LoadRules(u)
  \/ \E u \in Uploads : LoadBrands(u)
  \/ \E u \in Uploads : LoadLookupTables(u)
  \/ \E u \in Uploads : FindRows(u)
  \/ \E u \in Uploads : Suggest(u)
  \/ \E u \in Uploads : UpdateRow(u)
  \/ \E u \in Uploads : UpdateUpload(u)
  \/ \E u \in Uploads : RepositoryFails(u)

SpecFault == InitFault /\ [][NextFault]_vars

(***************************************************************************)
(* Properties of validate                                                  *)
(***************************************************************************)
CountStatus(u, st) ==
  Cardinality({i \in 1..Len(rowsOf[u]) : rowsOf[u][i].status = st})

OnlyInfo(issues) ==
  Len(issues) > 0 /\ \A i \in 1..Len(issues) : issues[i].severity = "info"

\* C1: once validate(uploadId) has completed, a row's persisted status is
\* error iff its persisted issue list has an error issue, warning iff it has
\* no error issue and has a warning issue, and pass otherwise (so a row with
\* info issues only is pass).
C1_StatusMatchesIssues ==
  \A u \in Uploads :
    run[u].pc = "done" =>
      \A i \in 1..Len(rowsOf[u]) :
        LET row == rowsOf[u][i]
            hasError == HasSeverity(row.validationResults, "error")
            hasWarning == HasSeverity(row.validationResults, "warning")
        IN /\ row.status \in {"error", "warning", "pass"}
           /\ row.status = "error" <=> hasError
           /\ row.status = "warning" <=> (~hasError /\ hasWarning)
           /\ row.status = "pass" <=> (~hasError /\ ~hasWarning)

\* a completed run with a row that has info issues only and is pass, next to
\* a row that is error through a merged cross-record issue
C1_Witness ==
  /\ run["U1"].pc = "done"
  /\ \E i, j \in 1..Len(rowsOf["U1"]) :
       /\ OnlyInfo(rowsOf["U1"][i].validationResults)
       /\ rowsOf["U1"][i].status = "pass"
       /\ rowsOf["U1"][j].status = "error"
       /\ \E k \in 1..Len(rowsOf["U1"][j].validationResults) :
            rowsOf["U1"][j].validationResults[k].rule = "parent_child_referential_integrity"

\* C2: when validate completes, the counts it returns and the counts it wrote
\* to the upload equal the numbers of the upload's rows whose persisted
\* status is pass, warning and error, and they add up to totalRows.
C2_CountsMatchStatuses ==
  \A u \in Uploads :
    run[u].pc = "done" =>
      LET res == run[u].result
      IN /\ res.passCount = CountStatus(u, "pass")
         /\ res.warningCount = CountStatus(u, "warning")
         /\ res.errorCount = CountStatus(u, "error")
         /\ uploads[u].passCount = res.passCount
         /\ uploads[u].warningCount = res.warningCount
         /\ uploads[u].errorCount = res.errorCount
         /\ res.totalRows = Len(rowsOf[u])
         /\ res.passCount + res.warningCount + res.errorCount = res.totalRows

\* a completed run over two rows of which none passed: one warning, one error
C2_Witness ==
  /\ run["U1"].pc = "done"
  /\ run["U1"].result.totalRows = 2
  /\ run["U1"].result.passCount = 0
  /\ run["U1"].result.warningCount = 1
  /\ run["U1"].result.errorCount = 1

\* C3: validate returns healthScore = passCount / totalRows x 100 for an
\* upload with rows (passCount being the number of rows persisted as pass),
\* and 0 for an upload without rows.
C3_HealthScore ==
  \A u \in Uploads :
    run[u].pc = "done" =>
      LET total == Len(rowsOf[u])
      IN IF total > 0
         THEN SameNumber(run[u].result.healthScore,
                         Ratio(CountStatus(u, "pass") * 100, total))
         ELSE SameNumber(run[u].result.healthScore, Ratio(0, 1))

\* a completed run with one of two rows passing: a health score of 50
C3_WitnessHalf ==
  /\ run["U1"].pc = "done"
  /\ Len(rowsOf["U1"]) = 2
  /\ CountStatus("U1", "pass") = 1
  /\ SameNumber(run["U1"].result.healthScore, Ratio(50, 1))

\* C4: when runs on different uploads interleave on the shared engine while
\* brands or lookup entries (and no rules) are edited, every record of a run
\* is evaluated against the rule set, brand set and lookup tables that this
\* same run loaded.
C4_RunsUseOwnSnapshot ==
  (\A r \in RuleIds : ruleActive[r] = (r \notin MalformedRules)) =>
    \A u \in Uploads :
      \A i \in 1..Len(trace[u].evaluated) :
        LET ctx == trace[u].evaluated[i]
        IN /\ ctx.brandNames = trace[u].loadedBrands
           /\ ctx.lookupTables = trace[u].loadedLookup
           /\ trace[u].ownRules => ctx.rules = trace[u].startRules

\* C5: every record of a run is evaluated with exactly the rules that were
\* active in the repository when the run started, also on an engine that
\* has run before.
C5_AppliesRulesActiveAtStart ==
  \A u \in Uploads :
    \A i \in 1..Len(trace[u].evaluated) :
      trace[u].evaluated[i].rules = trace[u].startRules

(***************************************************************************)
(* validateParentChildRelationships on its own                             *)
(***************************************************************************)
\* The rows validateParentChildRelationships is called with: parents with and
\* without a SKU, children that name a parent, a child row or nothing, and a
\* row without a parent_child mark that has a parent's SKU.
CrossCatalogue ==
  {[item_sku |-> Str.P1, parent_child |-> Str.Parent, variation_theme |-> Str.Size],
   [item_sku |-> Str.P1, parent_child |-> Str.parent, variation_theme |-> Str.Color],
   [parent_child |-> Str.parent, variation_theme |-> Str.Size],
   [item_sku |-> Str.Blank, parent_child |-> Str.parent, variation_theme |-> Str.Size],
   [item_sku |-> Str.C1, parent_child |-> Str.child, parent_sku |-> Str.P1pad,
    variation_theme |-> Str.Size],
   [item_sku |-> Str.C2, parent_child |-> Str.child, parent_sku |-> Str.P1,
    variation_theme |-> Str.Color],
   [item_sku |-> Str.C3, parent_child |-> Str.child, parent_sku |-> Str.C1,
    variation_theme |-> Str.Color],
   [item_sku |-> Str.C3, parent_child |-> Str.child, parent_sku |-> Str.Blank,
    variation_theme |-> Str.Color],
   [item_sku |-> Str.C3, parent_child |-> Str.child, parent_sku |-> UndefinedString,
    variation_theme |-> Str.Color],
   [item_sku |-> Str.P1, variation_theme |-> Str.Color]}

InitCross ==
  /\ IdleExcept("cross")
  /\ \E l \in UNION {[1..k -> CrossCatalogue] : k \in 0..MaxCrossRows} :
       crossRows = [i \in 1..Len(l) |-> NewRow("U1", i, l[i])]
  /\ crossIssues = <<>>
  /\ crossDone = FALSE
  /\ crossAgain = NotReturned

CrossValidate ==
  /\ ~crossDone
  /\ crossIssues' = ValidateParentChildRelationships(crossRows)
  /\ crossDone' = TRUE
  /\ UNCHANGED <<crossRows, crossAgain, engineVars, fixVars, heapVars, otherVars>>

\* the orders a list of n rows can be put in
Orders(n) == {o \in [1..n -> 1..n] : \A i, j \in 1..n : o[i] = o[j] => i = j}

\* validateParentChildRelationships on the same rows (each with its id) in
\* another order
CrossValidateReordered ==
  /\ crossDone
  /\ ~crossAgain.returned
  /\ \E order \in Orders(Len(crossRows)) :
       crossAgain' =
         [returned |-> TRUE, order |-> order,
          value |-> ValidateParentChildRelationships(
                      [i \in 1..Len(crossRows) |-> crossRows[order[i]]])]
  /\ UNCHANGED <<crossRows, crossIssues, crossDone, engineVars, fixVars, heapVars, otherVars>>

NextCross == CrossValidate \/ CrossValidateReordered

SpecCross == InitCross /\ [][NextCross]_vars

\* the parent_child mark and the SKUs as the validator reads them
CrossData(i) == DataOf(crossRows[i])
IsChildRow(i) == MarkedAs(CrossData(i), Str.child)
IsParentRow(i) == MarkedAs(CrossData(i), Str.parent)

\* row c's parent_sku is a non-blank SKU and row p is marked parent and has it
\* as item_sku (both taken trimmed)
NamesParent(c, p) ==
  /\ IsParentRow(p)
  /\ "item_sku" \in DOMAIN CrossData(p)
  /\ "parent_sku" \in DOMAIN CrossData(c)
  /\ Trim(CrossData(c)["parent_sku"]) # <<>>
  /\ Trim(CrossData(c)["parent_sku"]) = Trim(CrossData(p)["item_sku"])

ThemesDiffer(c, p) ==
  /\ Truthy(CrossData(c), "variation_theme")
  /\ Truthy(CrossData(p), "variation_theme")
  /\ Trim(CrossData(c)["variation_theme"]) # Trim(CrossData(p)["variation_theme"])

CrossIssuesOf(i) == MapGet(crossIssues, crossRows[i].id)

IssuesOn(issues, f) == {k \in 1..Len(issues) : issues[k].field = f}

ErrorsOn(issues, f) ==
  Cardinality({k \in IssuesOn(issues, f) : issues[k].severity = "error"})

\* C6: a child whose parent_sku names a parent row with a different (non-empty)
\* variation_theme gets exactly one error issue on variation_theme, and the
\* parent row gets no issue.
C6_OneThemeIssueOnChild ==
  crossDone =>
    \A c, p \in 1..Len(crossRows) :
      (IsChildRow(c) /\ NamesParent(c, p) /\ ThemesDiffer(c, p)) =>
        /\ ErrorsOn(CrossIssuesOf(c), "variation_theme") = 1
        /\ CrossIssuesOf(p) = <<>>

\* C7: a child whose parent_sku is the item_sku of no row marked parent gets
\* exactly one issue on parent_sku, an error; a child whose parent_sku is the
\* item_sku of a row marked parent gets no parent_sku issue.
C7_ParentSkuIssue ==
  crossDone =>
    \A c \in 1..Len(crossRows) :
      IsChildRow(c) =>
        IF \E p \in 1..Len(crossRows) : NamesParent(c, p)
        THEN IssuesOn(CrossIssuesOf(c), "parent_sku") = {}
        ELSE /\ ErrorsOn(CrossIssuesOf(c), "parent_sku") = 1
             /\ Cardinality(IssuesOn(CrossIssuesOf(c), "parent_sku")) = 1

\* an upload with a parent, a child that names it and a child that names a
\* row that is not a parent: the first child has no parent_sku issue, the
\* second has one
C7_Witness ==
  /\ crossDone
  /\ \E c, d, p, q \in 1..Len(crossRows) :
       /\ IsChildRow(c) /\ NamesParent(c, p)
       /\ ErrorsOn(CrossIssuesOf(c), "parent_sku") = 0
       /\ IsChildRow(d) /\ ~IsParentRow(q)
       /\ ~(\E r \in 1..Len(crossRows) : NamesParent(d, r))
       /\ "item_sku" \in DOMAIN CrossData(q)
       /\ Trim(CrossData(d)["parent_sku"]) = Trim(CrossData(q)["item_sku"])
       /\ ErrorsOn(CrossIssuesOf(d), "parent_sku") = 1

(***************************************************************************)
(* Auto-Fix: the string and number primitives applyAutoFix uses            *)
(***************************************************************************)
NotSpace(c) == c \notin WhiteSpace

\* s.replace(/\D/g, '')
DigitsOnly(s) == SelectSeq(s, IsDigit)

\* s.replace(/\s+/g, '')
RemoveSpaces(s) == SelectSeq(s, NotSpace)

\* s.replace(/\s+/g, ' ')
RECURSIVE CollapseSpaces(_)
CollapseSpaces(s) ==
  IF s = <<>> THEN <<>>
  ELSE IF Head(s) \in WhiteSpace
       THEN <<" ">> \o CollapseSpaces(TrimStart(Tail(s)))
       ELSE <<Head(s)>> \o CollapseSpaces(Tail(s))

\* the decimal digits of a natural number
RECURSIVE NatToString(_)
NatToString(n) ==
  IF n < 10 THEN <<Digits[n + 1]>>
  ELSE NatToString(n \div 10) \o <<Digits[(n % 10) + 1]>>

\* the longest prefix of s made of digits
RECURSIVE DigitPrefix(_)
DigitPrefix(s) ==
  IF s = <<>> \/ ~IsDigit(Head(s)) THEN <<>>
  ELSE <<Head(s)>> \o DigitPrefix(Tail(s))

RECURSIVE StripLeadingZeros(_)
StripLeadingZeros(d) ==
  IF Len(d) > 1 /\ Head(d) = "0" THEN StripLeadingZeros(Tail(d)) ELSE d

RECURSIVE StripTrailingZeros(_)
StripTrailingZeros(d) ==
  IF Len(d) > 1 /\ d[Len(d)] = "0"
  THEN StripTrailingZeros(SubSeq(d, 1, Len(d) - 1)) ELSE d

\* the sign a numeric literal starts with, and the literal after it
IsNegative(s) == s # <<>> /\ Head(s) = "-"
Unsigned(s) == IF s # <<>> /\ Head(s) \in {"-", "+"} THEN Tail(s) ELSE s

\* parseInt(s, 10) of a trimmed string.  The integer is kept as its decimal
\* digits (mag), since a quantity can exceed every machine integer; the
\* model's quantities are integers a double holds exactly.
ParseInt(s) ==
  LET d == DigitPrefix(Unsigned(s))
  IN IF d = <<>> THEN [nan |-> TRUE, neg |-> FALSE, mag |-> <<"0">>]
     ELSE [nan |-> FALSE, neg |-> IsNegative(s), mag |-> StripLeadingZeros(d)]

\* n >= 0 for a parsed integer (-0 >= 0 holds)
IsNonNegative(n) == ~n.neg \/ n.mag = <<"0">>

\* Number.prototype.toString of a non-negative integer: the plain digits
\* below 10^21, exponent notation from 10^21 on
NumberToString(mag) ==
  IF Len(mag) <= 21 THEN mag
  ELSE LET m == StripTrailingZeros(mag)
       IN <<Head(m)>> \o (IF Len(m) > 1 THEN <<".">> \o Tail(m) ELSE <<>>)
            \o <<"e", "+">> \o NatToString(Len(mag) - 1)

\* the first three fraction digits, as a number of thousandths
Thousandths(frac) ==
  DigitsToNat(SubSeq(frac \o <<"0", "0", "0">>, 1, 3))

\* parseFloat(s) of a trimmed string, in thousandths.  The model's prices
\* are decimal literals without exponent and with at most three fraction
\* digits.
ParseFloat(s) ==
  LET u == Unsigned(s)
      int == DigitPrefix(u)
      rest == SubSeq(u, Len(int) + 1, Len(u))
      frac == IF rest # <<>> /\ Head(rest) = "." THEN DigitPrefix(Tail(rest)) ELSE <<>>
  IN IF int = <<>> /\ frac = <<>> THEN [nan |-> TRUE, neg |-> FALSE, milli |-> 0]
     ELSE [nan |-> FALSE, neg |-> IsNegative(s),
           milli |-> DigitsToNat(int) * 1000 + Thousandths(frac)]

\* Number.prototype.toFixed(2) of a positive number given in thousandths
\* (no price of the model lies midway between two cent values)
ToFixed2(milli) ==
  LET cents == (milli + 5) \div 10
  IN NatToString(cents \div 100) \o <<".">>
       \o <<Digits[((cents % 100) \div 10) + 1], Digits[(cents % 10) + 1]>>

\* the sum with the weights 3, 1, 3, ... counted from the left
RECURSIVE WeightedSumFromLeft(_, _)
WeightedSumFromLeft(digits, i) ==
  IF i > Len(digits) THEN 0
  ELSE DigitVal(digits[i]) * (IF (i - 1) % 2 = 0 THEN 3 ELSE 1)
         + WeightedSumFromLeft(digits, i + 1)

\* calculateCheckDigit(digits): weights 3, 1, 3, ... from the right
RECURSIVE WeightedSum(_, _)
WeightedSum(digits, i) ==
  IF i > Len(digits) THEN 0
  ELSE DigitVal(digits[i]) * (IF (Len(digits) - i) % 2 = 0 THEN 3 ELSE 1)
         + WeightedSum(digits, i + 1)

CalculateCheckDigit(digits) ==
  NatToString((10 - (WeightedSum(digits, 1) % 10)) % 10)

(***************************************************************************)
(* Auto-Fix: applyAutoFix(data)                                            *)
(* The running state of a call is st = [fixedData, fixes]; every block of  *)
(* the function is an operator from st to st.                              *)
(***************************************************************************)
AutoFix(f, orig, fixed, type, desc) ==
  [field |-> f, originalValue |-> orig, fixedValue |-> fixed, fixType |-> type,
   description |-> desc]

\* fixedData[f] = v; fixes.push(fix)
Fixed(st, f, v, fix) ==
  [fixedData |-> MapSet(st.fixedData, f, v), fixes |-> Append(st.fixes, fix)]

\* The string fields of a record, in the order Object.entries lists them.
FieldOrder ==
  <<"item_sku", "product_name", "external_product_id", "brand_name", "color_name",
    "color_map", "size_name", "size_map", "standard_price", "quantity">>

\* the loop over Object.entries(fixedData): fields with outer whitespace
RECURSIVE FixWhitespace(_, _)
FixWhitespace(st, fields) ==
  IF fields = <<>> THEN st
  ELSE LET f == Head(fields)
       IN IF f \in DOMAIN st.fixedData /\ st.fixedData[f] # Trim(st.fixedData[f])
          THEN LET originalValue == st.fixedData[f]
                   fixedValue == CollapseSpaces(Trim(originalValue))
                   set == [st EXCEPT !.fixedData[f] = fixedValue]
               IN FixWhitespace(
                    IF originalValue # fixedValue
                    THEN Fixed(set, f, fixedValue,
                               AutoFix(f, originalValue, fixedValue, "whitespace",
                                       "Removed leading/trailing whitespace and normalized spaces"))
                    ELSE set,
                    Tail(fields))
          ELSE FixWhitespace(st, Tail(fields))

FixCheckDigit(st) ==
  IF ~Truthy(st.fixedData, "external_product_id") THEN st
  ELSE LET externalProductId == st.fixedData["external_product_id"]
           digits == DigitsOnly(externalProductId)
           front == SubSeq(digits, 1, Len(digits) - 1)
       IN IF Len(digits) \notin {12, 13} THEN st
          ELSE IF CalculateCheckDigit(front) = <<digits[Len(digits)]>> THEN st
          ELSE Fixed(st, "external_product_id", front \o CalculateCheckDigit(front),
                     AutoFix("external_product_id", externalProductId,
                             front \o CalculateCheckDigit(front), "check_digit",
                             "Corrected check digit"))

\* the color_map and size_map blocks: nameField || altField looked up in
\* tableType and written to mapField when that is empty
FixMapping(st, entries, tableType, nameField, altField, mapField) ==
  LET brand == FirstTruthy(st.fixedData, "brand_name", "brand")
      name == FirstTruthy(st.fixedData, nameField, altField)
      mapping == GetMapping(entries, tableType, name, brand)
  IN IF name # <<>> /\ ~Truthy(st.fixedData, mapField) /\ MappingFound(mapping)
     THEN Fixed(st, mapField, mapping[1],
                AutoFix(mapField, NullValue, mapping[1], "mapping",
                        "Applied mapping from lookup table"))
     ELSE st

FixItemSku(st) ==
  IF ~Truthy(st.fixedData, "item_sku") THEN st
  ELSE LET original == st.fixedData["item_sku"]
           fixed == RemoveSpaces(ToUpperCase(Trim(original)))
       IN IF original # fixed
          THEN Fixed(st, "item_sku", fixed,
                     AutoFix("item_sku", original, fixed, "formatting",
                             "Normalized SKU format (uppercase, no spaces)"))
          ELSE st

FixStandardPrice(st) ==
  IF ~Truthy(st.fixedData, "standard_price") THEN st
  ELSE LET priceStr == Trim(st.fixedData["standard_price"])
           priceNum == ParseFloat(priceStr)
       IN IF ~priceNum.nan /\ ~priceNum.neg /\ priceNum.milli > 0
             /\ priceStr # ToFixed2(priceNum.milli)
          THEN Fixed(st, "standard_price", ToFixed2(priceNum.milli),
                     AutoFix("standard_price", st.fixedData["standard_price"],
                             ToFixed2(priceNum.milli), "formatting",
                             "Formatted price to 2 decimal places"))
          ELSE st

FixQuantity(st) ==
  IF "quantity" \notin DOMAIN st.fixedData THEN st
  ELSE LET quantityStr == Trim(st.fixedData["quantity"])
           quantityNum == ParseInt(quantityStr)
       IN IF ~quantityNum.nan /\ IsNonNegative(quantityNum)
             /\ quantityStr # NumberToString(quantityNum.mag)
          THEN Fixed(st, "quantity", NumberToString(quantityNum.mag),
                     AutoFix("quantity", st.fixedData["quantity"],
                             NumberToString(quantityNum.mag), "formatting",
                             "Formatted quantity as integer"))
          ELSE st

\* applyAutoFix(data), with entries the active lookup_tables rows
ApplyAutoFix(entries, data) ==
  LET s0 == [fixedData |-> data, fixes |-> <<>>]
      s1 == FixWhitespace(s0, FieldOrder)
      s2 == FixCheckDigit(s1)
      s3 == FixMapping(s2, entries, "color_map", "color_name", "color", "color_map")
      s4 == FixMapping(s3, entries, "size_map", "size_name", "size", "size_map")
      s5 == FixItemSku(s4)
      s6 == FixStandardPrice(s5)
  IN FixQuantity(s6)

(***************************************************************************)
(* applyAutoFix called on a record and again on what it returned           *)
(***************************************************************************)
\* marks a column the record does not have
Absent == <<"absent">>


\* the columns r has a value for
Present(r) == [f \in {g \in DOMAIN r : r[g] # Absent} |-> r[f]]

\* The records applyAutoFix is called with: rows of a parsed file, every
\* value a string.
FixRecords ==
  {Present(r) : r \in
     [item_sku : {Str.SkuLower, Str.SkuSpaced, Str.P1},
      product_name : {Str.NameInner, Str.NameOuter},
      external_product_id : {Absent, Str.UpcValid, Str.UpcWrong, Str.UpcDashed},
      brand_name : {Absent, Str.CECE},
      color_name : {Absent, Str.Navy, Str.NavyPad},
      standard_price : {Absent, Str.PriceShort, Str.PriceCents, Str.PriceLong},
      quantity : {Absent, Str.QtyFive, Str.QtyZeros, Str.QtyDecimal, Str.QtyHuge}]}

InitFix ==
  /\ IdleExcept("fix")
  /\ fixInput \in FixRecords
  /\ fixStage = 0
  /\ fixOut1 = NoResult
  /\ fixOut2 = NoResult

\* applyAutoFix(fixInput)
AutoFixFirst ==
  /\ fixStage = 0
  /\ fixOut1' = ApplyAutoFix(dbLookup, fixInput)
  /\ fixStage' = 1
  /\ UNCHANGED <<fixInput, fixOut2, engineVars, crossVars, heapVars, otherVars>>

\* applyAutoFix(fixedData of the first call), the lookup tables unchanged
AutoFixAgain ==
  /\ fixStage = 1
  /\ fixOut2' = ApplyAutoFix(dbLookup, fixOut1.fixedData)
  /\ fixStage' = 2
  /\ UNCHANGED <<fixInput, fixOut1, engineVars, crossVars, heapVars, otherVars>>

NextFix == AutoFixFirst \/ AutoFixAgain

SpecFix == InitFix /\ [][NextFix]_vars

\* C8: applyAutoFix applied to the fixedData it returned reports no fix and
\* returns that fixedData unchanged.
C8_AutoFixIdempotent ==
  fixStage = 2 =>
    /\ fixOut2.fixes = <<>>
    /\ fixOut2.fixedData = fixOut1.fixedData

(***************************************************************************)
(* Enrichment history: objects and arrays by reference                     *)
(* heap.objs[o] is the field map of object o, heap.lists[l] the elements   *)
(* of array l; an object's _enrichmentHistory field holds an array's       *)
(* address, so that a write through a shared reference is seen by every    *)
(* holder of it.                                                           *)
(***************************************************************************)
HistoryField == "_enrichmentHistory"

\* originalValue of a field the record does not have
UndefinedValue == <<"undefined">>

EnrichmentChange(f, orig, new, type, reason) ==
  [field |-> f, originalValue |-> orig, newValue |-> new, changeType |-> type,
   reason |-> reason]

\* const updated = data: the same object under a second name
SpreadAlias(H, d) == [heap |-> H, ref |-> d]

\* const updated = { ...data }: a new object with the fields of d
Spread(H, d) ==
  [heap |-> [H EXCEPT !.objs = Append(@, H.objs[d])], ref |-> Len(H.objs) + 1]

\* getEnrichmentHistory(enrichedData): the elements of
\* enrichedData._enrichmentHistory || []
GetEnrichmentHistory(H, d) ==
  IF HistoryField \in DOMAIN H.objs[d] THEN H.lists[H.objs[d][HistoryField]] ELSE <<>>

\* [...changes, ...history]
SpreadConcatReversed(history, changes) == changes \o history

\* [...history, ...changes]
SpreadConcat(history, changes) == history \o changes

\* updated._enrichmentHistory = items, items a new array
SetHistory(H, updated, items) ==
  [objs |-> [H.objs EXCEPT ![updated] = MapSet(@, HistoryField, Len(H.lists) + 1)],
   lists |-> Append(H.lists, items)]

AddEnrichmentChange(H, enrichedData, change) ==
  LET updated == Spread(H, enrichedData)
      history == GetEnrichmentHistory(updated.heap, enrichedData)
  IN [heap |-> SetHistory(updated.heap, updated.ref, SpreadConcat(history, <<change>>)),
      ref |-> updated.ref]

AddEnrichmentChanges(H, enrichedData, changes) ==
  LET updated == Spread(H, enrichedData)
      history == GetEnrichmentHistory(updated.heap, enrichedData)
  IN [heap |-> SetHistory(updated.heap, updated.ref, SpreadConcat(history, changes)),
      ref |-> updated.ref]

\* applyEnrichmentSuggestion(data, suggestion): { updatedData, change }
ApplyEnrichmentSuggestion(H, data, suggestion) ==
  LET updatedData == Spread(H, data)
      originalValue == IF suggestion.field \in DOMAIN H.objs[data]
                       THEN H.objs[data][suggestion.field] ELSE UndefinedValue
  IN [heap |-> [updatedData.heap EXCEPT !.objs[updatedData.ref] =
                  MapSet(@, suggestion.field, suggestion.suggestedValue)],
      ref |-> updatedData.ref,
      change |-> EnrichmentChange(suggestion.field, originalValue,
                                  suggestion.suggestedValue, "suggestion_applied",
                                  suggestion.reason)]

\* applyAutoFix(data) on the heap: the fixes are written to the object
\* const fixedData = { ...data } made
ApplyAutoFixOn(H, entries, data) ==
  LET fixedData == Spread(H, data)
      result == ApplyAutoFix(entries, fixedData.heap.objs[fixedData.ref])
  IN [heap |-> [fixedData.heap EXCEPT !.objs[fixedData.ref] = result.fixedData],
      ref |-> fixedData.ref,
      fixes |-> result.fixes]

(***************************************************************************)
(* A record's enriched data under a sequence of enrichment calls           *)
(***************************************************************************)
\* the records whose enriched data the calls work on
HeapRecords ==
  {[item_sku |-> Str.P1, quantity |-> Str.QtyFive],
   [item_sku |-> Str.SkuLower, color_name |-> Str.Navy]}

\* the changes the model records: one already in a history, two to add
Changes ==
  [old |-> EnrichmentChange("brand_name", Str.ACME, Str.CECE, "manual_edit", ""),
   manual |-> EnrichmentChange("product_name", Str.NameInner, Str.X, "manual_edit", ""),
   fix |-> EnrichmentChange("quantity", Str.QtyZeros, Str.QtyFive, "auto_fix",
                            "Formatted quantity as integer")]

\* the change lists addEnrichmentChanges is called with
ChangeLists ==
  {<<>>, <<Changes.manual>>, <<Changes.manual, Changes.fix>>,
   <<Changes.fix, Changes.manual>>}

\* the suggestions applyEnrichmentSuggestion is called with
Suggestions ==
  {Suggestion("color_map", Str.Blue, "high", "Mapped from color_name"),
   Suggestion("item_sku", Str.C1, "medium", "Suggested SKU")}

\* The enriched data a record starts with: without history, with an empty
\* history and with a history of one change.
InitialHeaps ==
  {[objs |-> <<d>>, lists |-> <<>>] : d \in HeapRecords}
    \cup {[objs |-> <<MapSet(d, HistoryField, 1)>>, lists |-> <<l>>] :
            d \in HeapRecords, l \in {<<>>, <<Changes.old>>}}

InitHeap ==
  /\ IdleExcept("heap")
  /\ heap \in InitialHeaps
  /\ cur = 1
  /\ last = NoCall
  /\ nCalls = 0

\* the call returns res: the record's enriched data is now what it returned
Returned(op, res, changes) ==
  /\ nCalls' = nCalls + 1
  /\ heap' = res.heap
  /\ cur' = res.ref
  /\ last' = [op |-> op, input |-> cur, output |-> res.ref, before |-> heap,
              changes |-> changes]

AddChange(change) ==
  /\ nCalls < MaxCalls
  /\ Returned("addEnrichmentChange", AddEnrichmentChange(heap, cur, change), <<change>>)
  /\ UNCHANGED <<engineVars, crossVars, fixVars, otherVars>>

AddChanges(changes) ==
  /\ nCalls < MaxCalls
  /\ Returned("addEnrichmentChanges", AddEnrichmentChanges(heap, cur, changes), changes)
  /\ UNCHANGED <<engineVars, crossVars, fixVars, otherVars>>

ApplySuggestion(suggestion) ==
  /\ nCalls < MaxCalls
  /\ LET res == ApplyEnrichmentSuggestion(heap, cur, suggestion)
     IN Returned("applyEnrichmentSuggestion", res, <<res.change>>)
  /\ UNCHANGED <<engineVars, crossVars, fixVars, otherVars>>

AutoFixCall ==
  /\ nCalls < MaxCalls
  /\ Returned("applyAutoFix", ApplyAutoFixOn(heap, dbLookup, cur), <<>>)
  /\ UNCHANGED <<engineVars, crossVars, fixVars, otherVars>>

NextHeap ==
  \/ \E change \in {Changes.manual, Changes.fix} : AddChange(change)
  \/ \E changes \in ChangeLists : AddChanges(changes)
  \/ \E suggestion \in Suggestions : ApplySuggestion(suggestion)
  \/ AutoFixCall

SpecHeap == InitHeap /\ [][NextHeap]_vars

\* C9: after a call of applyAutoFix, applyEnrichmentSuggestion,
\* addEnrichmentChange or addEnrichmentChanges the object passed in has the
\* fields and field values it had before the call, its _enrichmentHistory
\* array has the elements it had before the call, and the object returned is
\* another object.
C9_InputLeftUnchanged ==
  last.op # "none" =>
    /\ last.output # last.input
    /\ heap.objs[last.input] = last.before.objs[last.input]
    /\ GetEnrichmentHistory(heap, last.input)
         = GetEnrichmentHistory(last.before, last.input)
    /\ \A l \in 1..Len(last.before.lists) : heap.lists[l] = last.before.lists[l]

\* addEnrichmentChanges has returned a longer history than the non-empty one
\* of the object it was given
C9_Witness ==
  /\ last.op = "addEnrichmentChanges"
  /\ Len(GetEnrichmentHistory(last.before, last.input)) > 0
  /\ Len(GetEnrichmentHistory(heap, last.output))
       > Len(GetEnrichmentHistory(heap, last.input))

\* C10: after a call of addEnrichmentChange or addEnrichmentChanges the
\* history of the returned data is the history of the data passed in followed
\* by the supplied changes in the order supplied: nothing is removed or
\* reordered.
C10_HistoryOnlyGrows ==
  last.op \in {"addEnrichmentChange", "addEnrichmentChanges"} =>
    GetEnrichmentHistory(heap, last.output)
      = GetEnrichmentHistory(last.before, last.input) \o last.changes

\* the third call in a row adds two changes to a history that has entries
C10_Witness ==
  /\ nCalls = 3
  /\ last.op = "addEnrichmentChanges"
  /\ Len(last.changes) = 2
  /\ Len(GetEnrichmentHistory(last.before, last.input)) >= 2


(***************************************************************************)
(* Single calls of the engine's and the enrichment service's functions     *)
(* SpecCalls draws the arguments of one call and lets the call return.     *)
(***************************************************************************)
Returns(v) == [returned |-> TRUE, threw |-> FALSE, value |-> v]

Throws(error) == [returned |-> TRUE, threw |-> TRUE, error |-> error]

\* Barcodes a cell can hold: three stems with every last digit, the same
\* with white space around them, and values of other shapes.
BarcodeInputs ==
  LET stems == {SubSeq(Str.UpcValid, 1, 11),
                <<"0","1","2","3","4","5","6","7","8","9","0">>,
                <<"4","0","0","6","3","8","1","3","3","3","9","3">>}
      shaped == {st \o <<Digits[d]>> : st \in stems, d \in 1..10}
      padded == UNION {{<<" ">> \o b, b \o <<" ">>, <<"\t">> \o b \o <<" ">>} : b \in shaped}
      others == stems \cup {<<>>, Str.Blank, Str.UpcDashed, Str.X,
                            SubSeq(Str.UpcValid, 1, 11) \o <<"x">>,
                            SubSeq(Str.UpcValid, 1, 6) \o <<" ">> \o SubSeq(Str.UpcValid, 7, 12),
                            Str.UpcValid \o <<"0","5">>}
  IN shaped \cup padded \cup others

\* A custom rule on external_product_id, as the rule documentation and the
\* seed configure it.
CustomRule(functionName) ==
  [id |-> "r_upc", fieldName |-> "external_product_id", ruleType |-> "custom",
   ruleConfig |-> [function |-> functionName], severity |-> "error",
   message |-> "UPC/EAN check digit is invalid", sortOrder |-> 4]

\* rows with a barcode cell, and a row without one
BarcodeRows ==
  {NewRow("U1", 1, [item_sku |-> Str.S1, external_product_id |-> b]) : b \in BarcodeInputs}
    \cup {NewRow("U1", 1, [item_sku |-> Str.S1])}

\* lookup_tables as an administrator can leave it: for each of Navy and M
\* a generic and a CECE entry of both mapping tables, each of them active,
\* inactive or not there
MappingTables ==
  LET keys == {"color_map", "size_map"} \X {Str.Navy, Str.M} \X {NullBrand, BrandOf(Str.CECE)}
      Entry(k, on) == [tableType |-> k[1], sourceValue |-> k[2],
                       targetValue |-> IF k[3].isNull THEN Str.Blue ELSE Str.Azure,
                       brand |-> k[3], isActive |-> on]
      shared == {k \in keys : (k[1] = "color_map") = (k[2] = Str.Navy)}
  IN {{Entry(k, on[k]) : k \in DOMAIN on} :
        on \in UNION {[present -> BOOLEAN] : present \in SUBSET shared}}

\* titles with no, few, many and consecutive punctuation marks, on records
\* with or without a brand and a color
TitleInputs ==
  [title : {<<>>, Str.Blank, Str.CECE, Str.Navy \o <<" ">> \o Str.CECE,
            Str.Navy \o <<"!">>, Str.Navy \o <<"!", "!">>,
            <<"a", "!", "b", "?", "c", ".">>,
            <<"a", ".", "b", ",", "c", ";", "d", ":", "e">>,
            Str.CECE \o <<"!", "!", "!", "!">>,
            <<"!", "?">> \o Str.Navy \o <<".", " ", ":", ";">>},
   data : {Present(r) : r \in [brand_name : {Absent, Str.CECE},
                                color_name : {Absent, Str.Navy}]}]

\* a rule of the given type on a field, as the seed writes them
FieldRule(ruleType, fieldName, ruleConfig) ==
  [id |-> "r_" \o ruleType, fieldName |-> fieldName, ruleType |-> ruleType,
   ruleConfig |-> ruleConfig, severity |-> "error",
   message |-> "Field is not valid", sortOrder |-> 5]

\* a string of n letters
Letters(n) == [i \in 1..n |-> "a"]

\* Descriptions a cell can hold: none, null, blank, short, at and over the
\* length limit, with tag-shaped text, and a number
DescriptionInputs ==
  LET tag == <<"<", "b", ">">>
      closing == <<"<", "/", "p", " ", ">">>
  IN {Absent, NullValue, <<>>, Str.Blank, <<"\t", " ">>, Str.abc,
      Letters(MaxDescriptionLength), Letters(MaxDescriptionLength + 1),
      <<" ">> \o Letters(MaxDescriptionLength) \o <<" ">>,
      Str.abc \o tag, closing \o Str.abc, <<"1", "<", "2", ">">>, <<"<", " ", "b", ">">>,
      <<"<", "b">>, Letters(MaxDescriptionLength) \o tag, NumberCell(<<"8">>)}

\* Cells a rule's field can hold: none, null, empty, blank, text, numerals
\* and a number
CellInputs ==
  {Absent, NullValue, <<>>, Str.Blank, <<"\t", " ">>, Str.P1, Str.P1pad, Str.CECE,
   Str.womens, Str.QtyFive, Str.QtyZeros, <<"0">>, <<"5", "0">>, NumberCell(<<"8">>)}

\* Rules of every type but custom, on the field they are seeded for
TypedRules ==
  {RuleDefs["r_sku"], RuleDefs["r_brand"], RuleDefs["r_dept"], RuleDefs["r_pattern"],
   FieldRule("required", "product_description", EmptyConfig),
   FieldRule("max_length", "item_sku", [max |-> [number |-> 2]]),
   FieldRule("regex", "item_sku", [pattern |-> Str.SkuPattern]),
   FieldRule("range", "quantity", [min |-> 1]),
   FieldRule("range", "quantity", [min |-> 1, max |-> 10]),
   FieldRule("lookup", "fulfillment", [values |-> <<Str.P1, Str.CECE>>])}

\* Records inferDepartment is called with: a clothing type or none, names
\* with women's and men's words, a size, and descriptions with the unisex,
\* baby and kids words
DepartmentInputs ==
  {Present(r) : r \in
     [clothing_type : {Absent, <<"S","u","i","t">>, <<"d","r","e","s","s">>,
                       <<"s","h","i","r","t">>},
      item_name : {Absent, <<"t","o","p">>, <<"W","o","m","e","n"," ","t","o","p">>,
                   <<"w","o","m","e","n","s">>, <<"w","o","m","e","n","'","s">>,
                   <<"L","a","d","i","e","s"," ","t","o","p">>, <<"f","e","m","a","l","e">>,
                   <<"m","e","n","'","s"," ","h","a","t">>,
                   <<"l","a","d","i","e","s"," ","a","n","d"," ","m","e","n">>},
      size_name : {Absent, Str.M, <<"8">>},
      product_description : {Absent, <<"u","n","i","s","e","x">>,
                             <<"b","a","b","y"," ","b","l","u","e">>,
                             <<"k","i","d","s">>, <<"s","o","f","t">>}]}

InitCalls ==
  /\ IdleExcept("call")
  /\ callIn \in [fn : {"validateBarcodeCheckDigit"}, barcode : BarcodeInputs]
                \cup [fn : {"applyRule"},
                      rule : {CustomRule(n) : n \in {"validateUPCCheckDigit",
                                                     "validateBarcodeCheckDigit",
                                                     "validateUPCEAN"}},
                      row : BarcodeRows]
                \cup {[fn |-> "validateTitleQuality", title |-> t.title, data |-> t.data] :
                        t \in TitleInputs}
                \cup {[fn |-> "applyRule",
                       rule |-> [CustomRule(n) EXCEPT
                                   !.fieldName = "item_name", !.severity = "warning"],
                       row |-> NewRow("U1", 1, [item_name |-> t.title] @@ t.data)] :
                        t \in TitleInputs, n \in {"validateTitleQuality", "checkTitleQuality"}}
                \cup [fn : {"applyRule"},
                      rule : {RuleDefs["r_pattern"],
                              [RuleDefs["r_pattern"] EXCEPT
                                 !.ruleConfig = [pattern |-> Str.SkuPattern]],
                              RuleDefs["r_maxlen"],
                              [RuleDefs["r_maxlen"] EXCEPT
                                 !.ruleConfig = [max |-> [number |-> 2]]]},
                      row : {NewRow("U1", 1, [item_sku |-> sku]) :
                               sku \in {Str.P1, Str.SkuLower, Str.SkuSpaced, Str.Blank}}]
                \cup {[fn |-> "applyRule",
                       rule |-> [CustomRule("validateDescription") EXCEPT
                                   !.fieldName = "product_description"],
                       row |-> NewRow("U1", 1, Present([item_sku |-> Str.S1,
                                                        product_description |-> d]))] :
                        d \in DescriptionInputs}
                \cup {[fn |-> "applyRule", rule |-> r,
                       row |-> NewRow("U1", 1, Present([f \in {"brand", r.fieldName} |->
                                                          IF f = "brand" THEN Str.CECE ELSE v]))] :
                        r \in TypedRules, v \in CellInputs}
                \cup [fn : {"inferDepartment"}, data : DepartmentInputs]
                \cup {[fn |-> "applyAutoFix",
                       data |-> [item_sku |-> Str.S1, external_product_id |-> b]] :
                        b \in BarcodeInputs}
                \cup [fn : {"getColorMapping", "getSizeMapping"},
                      table : MappingTables,
                      name : {Str.Navy, Str.NavyPad, Str.M, Str.Blank, <<>>},
                      brand : {<<>>, Str.CECE, Str.ACME}]
  /\ callOut = NotReturned

CallValidateBarcodeCheckDigit ==
  /\ callIn.fn = "validateBarcodeCheckDigit"
  /\ ~callOut.returned
  /\ callOut' = Returns(ValidateBarcodeCheckDigit(callIn.barcode))
  /\ UNCHANGED <<callIn, authVars, mappingVars, engineVars, crossVars, fixVars, heapVars>>

\* applyRule(rule, row) on an engine with the seeded brands and lookup tables
CallApplyRule ==
  /\ callIn.fn = "applyRule"
  /\ ~callOut.returned
  /\ callOut' = IF ApplyRuleThrows(callIn.rule, callIn.row)
                THEN Throws("SyntaxError")
                ELSE Returns(ApplyRule(callIn.rule, callIn.row, dbBrands,
                                       GroupLookup(dbLookup)))
  /\ UNCHANGED <<callIn, authVars, mappingVars, engineVars, crossVars, fixVars, heapVars>>

\* getColorMapping(name, brand) / getSizeMapping(name, brand) over a table
CallGetMapping ==
  /\ callIn.fn \in {"getColorMapping", "getSizeMapping"}
  /\ ~callOut.returned
  /\ callOut' = Returns(IF callIn.fn = "getColorMapping"
                        THEN GetColorMapping(callIn.table, callIn.name, callIn.brand)
                        ELSE GetSizeMapping(callIn.table, callIn.name, callIn.brand))
  /\ UNCHANGED <<callIn, authVars, mappingVars, engineVars, crossVars, fixVars, heapVars>>

\* validateTitleQuality(title, data)
CallValidateTitleQuality ==
  /\ callIn.fn = "validateTitleQuality"
  /\ ~callOut.returned
  /\ callOut' = Returns(ValidateTitleQuality(callIn.title, callIn.data))
  /\ UNCHANGED <<callIn, authVars, mappingVars, engineVars, crossVars, fixVars, heapVars>>

\* inferDepartment(data)
CallInferDepartment ==
  /\ callIn.fn = "inferDepartment"
  /\ ~callOut.returned
  /\ callOut' = Returns(InferDepartment(callIn.data))
  /\ UNCHANGED <<callIn, authVars, mappingVars, engineVars, crossVars, fixVars, heapVars>>

\* applyAutoFix(data) with the seeded lookup tables
CallApplyAutoFix ==
  /\ callIn.fn = "applyAutoFix"
  /\ ~callOut.returned
  /\ callOut' = Returns(ApplyAutoFix(dbLookup, callIn.data))
  /\ UNCHANGED <<callIn, authVars, mappingVars, engineVars, crossVars, fixVars, heapVars>>

NextCalls ==
  \/ CallInferDepartment
  \/ CallApplyAutoFix
  \/ CallValidateBarcodeCheckDigit
  \/ CallApplyRule
  \/ CallGetMapping
  \/ CallValidateTitleQuality

SpecCalls == InitCalls /\ [][NextCalls]_vars

\* S of a string of digits followed by a check digit: the digit k places left
\* of the check digit weighs 3 for odd k and 1 for even k.
RECURSIVE SumLeftOfCheckDigit(_, _)
SumLeftOfCheckDigit(s, k) ==
  IF k >= Len(s) THEN 0
  ELSE DigitVal(s[Len(s) - k]) * (IF k % 2 = 1 THEN 3 ELSE 1)
         + SumLeftOfCheckDigit(s, k + 1)

IsBarcodeShaped(s) == Len(s) \in {12, 13} /\ \A i \in 1..Len(s) : IsDigit(s[i])

CheckDigitMatches(s) ==
  DigitVal(s[Len(s)]) = (10 - (SumLeftOfCheckDigit(s, 1) % 10)) % 10

BarcodeReturned == callIn.fn = "validateBarcodeCheckDigit" /\ callOut.returned

\* C11 as stated: validateBarcodeCheckDigit returns true exactly for the
\* all-digit strings of length 12 or 13 whose last digit is the check digit of
\* the digits before it, and false for every other input.
C11_ExactShapeOnly ==
  BarcodeReturned =>
    callOut.value = (IsBarcodeShaped(callIn.barcode) /\ CheckDigitMatches(callIn.barcode))

\* C11 amended: validateBarcodeCheckDigit returns true exactly for the inputs
\* that, with leading and trailing white space removed, are all-digit strings
\* of length 12 or 13 whose last digit is the check digit of the digits before
\* it, and false for every other input.
C11_TrimmedShape ==
  BarcodeReturned =>
    callOut.value = (IsBarcodeShaped(Trim(callIn.barcode))
                       /\ CheckDigitMatches(Trim(callIn.barcode)))

\* a 13-digit barcode with white space around it was accepted
C11_Witness ==
  /\ BarcodeReturned
  /\ callOut.value
  /\ Len(Trim(callIn.barcode)) = 13
  /\ Len(callIn.barcode) > 13


\* C12: a custom rule with function validateBarcodeCheckDigit applied to a
\* present value that is not a 12- or 13-digit all-numeric string (also not
\* once trimmed) yields no issue.
C12_OtherShapesPassSilently ==
  LET data == DataOf(callIn.row)
  IN (/\ callIn.fn = "applyRule"
      /\ callOut.returned
      /\ callIn.rule.ruleType = "custom"
      /\ callIn.rule.ruleConfig.function = "validateBarcodeCheckDigit"
      /\ IsFieldPresent(data, "external_product_id")
      /\ ~IsBarcodeShaped(Trim(data.external_product_id)))
     => callOut.value = <<>>


\* the issues a run holds or has persisted for its upload's rows
IssuesOfRun(u) ==
  UNION {{run[u].rowIssuesMap[k][i] : i \in 1..Len(run[u].rowIssuesMap[k])} :
           k \in DOMAIN run[u].rowIssuesMap}

\* C13: with a rule of malformed ruleConfig among the active rules, no
\* validate run is ended by a rule's evaluation and no issue of the run
\* carries the malformed rule's id.
C13_MalformedRuleContributesNothing ==
  \A u \in Uploads :
    /\ \A i \in 1..Len(trace[u].errors) : trace[u].errors[i] # "SyntaxError"
    /\ \A issue \in IssuesOfRun(u) : issue.rule \notin MalformedRules


\* C14: a record whose data makes per-record processing throw does not end
\* the run: no run is rejected by the error, and a run that is done has
\* persisted a status for every row of its upload.
C14_BadRecordDoesNotAbort ==
  \A u \in Uploads :
    /\ \A i \in 1..Len(trace[u].errors) : trace[u].errors[i] # "TypeError"
    /\ run[u].pc = "done" =>
         \A i \in 1..Len(rowsOf[u]) : rowsOf[u][i].status # "pending"

RepositoryFailed(errors) == \E i \in 1..Len(errors) : errors[i] = "PrismaClientError"

MappingEntries(brand) ==
  {e \in callIn.table :
     /\ e.isActive
     /\ e.tableType = (IF callIn.fn = "getColorMapping" THEN "color_map" ELSE "size_map")
     /\ e.sourceValue = Trim(callIn.name)
     /\ e.brand = brand}

MappingReturned ==
  /\ callIn.fn \in {"getColorMapping", "getSizeMapping"}
  /\ callOut.returned
  /\ callIn.brand # <<>>

\* C16: called with a brand, getColorMapping / getSizeMapping return the
\* target of the active entry for the trimmed name and that brand when there
\* is one, else the target of the active generic entry when there is one,
\* else null, and without an error; no inactive entry's target is returned.
C16_BrandEntryFirst ==
  MappingReturned =>
    LET own == MappingEntries(BrandOf(callIn.brand))
        generic == MappingEntries(NullBrand)
    IN /\ ~callOut.threw
       /\ own # {} => \E e \in own : callOut.value = <<e.targetValue>>
       /\ own = {} /\ generic # {} => \E e \in generic : callOut.value = <<e.targetValue>>
       /\ own = {} /\ generic = {} => callOut.value = <<>>

\* both the brand's entry and the generic one are active, and the brand's
\* target came back
C16_Witness ==
  /\ MappingReturned
  /\ MappingEntries(BrandOf(callIn.brand)) # {}
  /\ MappingEntries(NullBrand) # {}
  /\ \E e \in callIn.table : ~e.isActive
  /\ callOut.value = <<Str.Azure>>


\* C17: while an upload's validate run stays completed, no step (an edit of
\* rules, brands or lookup entries, a step of a run on another upload)
\* changes the upload's persisted row issues, row statuses or summary counts.
C17_CompletedRunsStayAsWritten ==
  [][\A u \in Uploads :
       (run[u].pc = "done" /\ run'[u].pc = "done") =>
         (rowsOf'[u] = rowsOf[u] /\ uploads'[u] = uploads[u])]_vars

\* U1 is completed with a persisted issue of the item_sku rule, the rule has
\* been deactivated since it was loaded, and a run on U2 has completed too
C17_Witness ==
  /\ run["U1"].pc = "done" /\ uploads["U1"].status = "completed"
  /\ run["U2"].pc = "done"
  /\ ~ruleActive["r_sku"]
  /\ \E i \in 1..Len(rowsOf["U1"]) :
       \E k \in 1..Len(rowsOf["U1"][i].validationResults) :
         rowsOf["U1"][i].validationResults[k].rule = "r_sku"

\* every row of the run has been evaluated and has its list in the map
AllRowsEvaluated(r, t) ==
  /\ Len(t.evaluated) = Len(r.uploadRows)
  /\ \A i \in 1..Len(r.uploadRows) : r.uploadRows[i].id \in DOMAIN r.rowIssuesMap

\* the map's lists end with the cross-record issues of their rows
CrossIssuesMerged(r) ==
  LET cross == ValidateParentChildRelationships(r.uploadRows)
  IN \A id \in DOMAIN cross :
       /\ id \in DOMAIN r.rowIssuesMap
       /\ Len(r.rowIssuesMap[id]) >= Len(cross[id])
       /\ SubSeq(r.rowIssuesMap[id], Len(r.rowIssuesMap[id]) - Len(cross[id]) + 1,
                 Len(r.rowIssuesMap[id])) = cross[id]

\* C19: a run enters its update loop (the cross-record pass done) only with
\* every row evaluated, and each step that persists a row's status and
\* issues or increments a count starts from a state where the cross-record
\* issues of all rows are merged into the per-row lists.
C19_CrossPassIsBarrier ==
  [][\A u \in Uploads :
       /\ (run[u].pc \in {"findRows", "suggest"} /\ run'[u].pc \in {"updateRow", "updateUpload"})
            => AllRowsEvaluated(run'[u], trace'[u])
       /\ (\/ rowsOf'[u] # rowsOf[u]
           \/ run'[u].passCount > run[u].passCount
           \/ run'[u].warningCount > run[u].warningCount
           \/ run'[u].errorCount > run[u].errorCount)
            => /\ run[u].pc = "updateRow"
               /\ AllRowsEvaluated(run[u], trace[u])
               /\ CrossIssuesMerged(run[u])]_vars

\* the first row is persisted with a cross-record issue while the second row
\* is still pending
C19_Witness ==
  /\ run["U1"].pc = "updateRow"
  /\ Len(rowsOf["U1"]) = 2
  /\ rowsOf["U1"][2].status = "pending"
  /\ \E k \in 1..Len(rowsOf["U1"][1].validationResults) :
       rowsOf["U1"][1].validationResults[k].rule = "parent_child_referential_integrity"


\* C20: validateTitleQuality reports the excessive-punctuation issue at most
\* once per title.
C20_PunctuationFlaggedOnce ==
  /\ (callIn.fn = "validateTitleQuality" /\ callOut.returned) =>
       Cardinality({i \in 1..Len(callOut.value) :
                      callOut.value[i] = "Title contains excessive punctuation"}) <= 1
  /\ (callIn.fn = "applyRule" /\ callOut.returned /\ ~callOut.threw) =>
       Cardinality({i \in 1..Len(callOut.value) :
                      callOut.value[i].message = "Title contains excessive punctuation"}) <= 1


(***************************************************************************)
(* AuthService.login(email, password)                                      *)
(* One action per await; several login calls for the account can be in     *)
(* flight at once. Time is in minutes.                                     *)
(***************************************************************************)
\* if (failedLogins >= 5)
LockThreshold == 5

\* Date.now() + 30 * 60 * 1000
LockMinutes == 30

\* a login call that ended: what it answered, whether its password was the
\* account's, and whether a lock written before its lock check was still
\* running at that check
Ended(l, outcome) ==
  [outcome |-> outcome, passwordValid |-> l.passwordValid, underLock |-> l.underLock]

\* The account has failed 0 to 4 times in a row and is not locked.
InitAuth ==
  /\ IdleExcept("auth")
  /\ \E n \in 0..(LockThreshold - 1) :
       /\ account = [NewAccount EXCEPT !.failedLogins = n]
       /\ authLog = [ended |-> [i \in 1..n |->
                                  [outcome |-> "invalid", passwordValid |-> FALSE,
                                   underLock |-> FALSE]],
                     lockEnd |-> <<>>]
  /\ clock = StartOfTime
  /\ logins = <<>>

\* login is called and awaits prisma.user.findUnique
Login(passwordValid) ==
  /\ Len(logins) < MaxLogins
  /\ logins' = Append(logins, [pc |-> "findUnique", passwordValid |-> passwordValid,
                               user |-> <<>>, underLock |-> FALSE, data |-> <<>>])
  /\ UNCHANGED <<account, clock, authLog, callVars, mappingVars,
                 engineVars, crossVars, fixVars, heapVars>>

\* findUnique resolves: the lock check and the isActive check
FindUnique(i) ==
  /\ logins[i].pc = "findUnique"
  /\ LET user == account
         l == [logins[i] EXCEPT
                 !.user = user,
                 !.underLock = authLog.lockEnd # <<>> /\ authLog.lockEnd[1] > clock.now]
         locked == user.lockedUntil # <<>> /\ user.lockedUntil[1] > clock.now
     IN IF locked \/ ~user.isActive
        THEN /\ logins' = [logins EXCEPT ![i] = [l EXCEPT !.pc = "ended"]]
             /\ authLog' = [authLog EXCEPT
                              !.ended = Append(@, Ended(l, IF locked THEN "locked"
                                                           ELSE "deactivated"))]
        ELSE /\ logins' = [logins EXCEPT ![i] = [l EXCEPT !.pc = "comparePassword"]]
             /\ UNCHANGED authLog
  /\ UNCHANGED <<account, clock, callVars, mappingVars,
                 engineVars, crossVars, fixVars, heapVars>>

\* comparePassword resolves: the update data are built from the user read
ComparePassword(i) ==
  /\ logins[i].pc = "comparePassword"
  /\ LET l == logins[i]
         failedLogins == l.user.failedLogins + 1
     IN logins' = [logins EXCEPT ![i] =
                     IF ~l.passwordValid
                     THEN [l EXCEPT !.pc = "updateFailed",
                                    !.data = IF failedLogins >= LockThreshold
                                             THEN [failedLogins |-> failedLogins,
                                                   lockedUntil |-> <<clock.now + LockMinutes>>]
                                             ELSE [failedLogins |-> failedLogins]]
                     ELSE [l EXCEPT !.pc = "updateSuccess",
                                    !.data = [failedLogins |-> 0, lockedUntil |-> <<>>]]]
  /\ UNCHANGED <<account, clock, authLog, callVars, mappingVars,
                 engineVars, crossVars, fixVars, heapVars>>

\* prisma.user.update of a failed login resolves; 'Invalid credentials'
UpdateFailed(i) ==
  /\ logins[i].pc = "updateFailed"
  /\ LET data == logins[i].data
     IN /\ account' = [f \in DOMAIN account |->
                         IF f \in DOMAIN data THEN data[f] ELSE account[f]]
        /\ authLog' = [ended |-> Append(authLog.ended, Ended(logins[i], "invalid")),
                       lockEnd |-> IF "lockedUntil" \in DOMAIN data
                                   THEN data.lockedUntil ELSE authLog.lockEnd]
  /\ logins' = [logins EXCEPT ![i].pc = "ended"]
  /\ UNCHANGED <<clock, callVars, mappingVars,
                 engineVars, crossVars, fixVars, heapVars>>

\* prisma.user.update of a successful login resolves; the token is returned
UpdateSuccess(i) ==
  /\ logins[i].pc = "updateSuccess"
  /\ account' = [account EXCEPT !.failedLogins = logins[i].data.failedLogins,
                                !.lockedUntil = logins[i].data.lockedUntil]
  /\ authLog' = [authLog EXCEPT !.ended = Append(@, Ended(logins[i], "token"))]
  /\ logins' = [logins EXCEPT ![i].pc = "ended"]
  /\ UNCHANGED <<clock, callVars, mappingVars,
                 engineVars, crossVars, fixVars, heapVars>>

\* time passes: a minute, or all but the last minute of a lock
Tick(minutes) ==
  /\ clock.ticks < MaxTicks
  /\ clock' = [now |-> clock.now + minutes, ticks |-> clock.ticks + 1]
  /\ UNCHANGED <<account, logins, authLog, callVars, mappingVars,
                 engineVars, crossVars, fixVars, heapVars>>

NextAuth ==
  \/ \E passwordValid \in BOOLEAN : Login(passwordValid)
  \/ \E i \in DOMAIN logins : FindUnique(i)
  \/ \E i \in DOMAIN logins : ComparePassword(i)
  \/ \E i \in DOMAIN logins : UpdateFailed(i)
  \/ \E i \in DOMAIN logins : UpdateSuccess(i)
  \/ \E minutes \in {1, LockMinutes - 1} : Tick(minutes)

SpecAuth == InitAuth /\ [][NextAuth]_vars

\* the failed logins since the last successful one
FailedInARow ==
  LET e == authLog.ended
      lastToken == IF \E i \in 1..Len(e) : e[i].outcome = "token"
                   THEN CHOOSE i \in 1..Len(e) :
                          e[i].outcome = "token"
                          /\ \A j \in (i + 1)..Len(e) : e[j].outcome # "token"
                   ELSE 0
  IN Cardinality({i \in (lastToken + 1)..Len(e) : e[i].outcome = "invalid"})

\* C18: with 5 failed logins in a row the account is locked; a login whose
\* lock check falls between a lock's start and its lockedUntil is rejected
\* whatever its password; after a successful login the counter is 0 and the
\* lock is cleared.
C18_LockAfterFiveFailures ==
  LET e == authLog.ended
  IN /\ FailedInARow >= LockThreshold => account.lockedUntil # <<>>
     /\ \A i \in 1..Len(e) : e[i].underLock => e[i].outcome = "locked"
     /\ (e # <<>> /\ e[Len(e)].outcome = "token") =>
          (account.failedLogins = 0 /\ account.lockedUntil = <<>>)


(***************************************************************************)
(* applyAutoFix: what a single call reports                                *)
(***************************************************************************)
\* the fixes of type fixType reported for field f by the first call
FixesFor(f, fixType) ==
  SelectSeq(fixOut1.fixes, LAMBDA x : x.field = f /\ x.fixType = fixType)

\* C21: for every string field of the input that differs from its trimmed,
\* space-collapsed form, applyAutoFix reports one whitespace fix to that form
\* and sets the field to it (unless a later fix rewrites the field again);
\* fields already in that form get no whitespace fix.
C21_WhitespaceNormalised ==
  fixStage >= 1 =>
    \A f \in DOMAIN fixInput :
      LET normalised == CollapseSpaces(Trim(fixInput[f]))
          reported == FixesFor(f, "whitespace")
      IN IF fixInput[f] # normalised
         THEN /\ Len(reported) = 1
              /\ reported[1].originalValue = fixInput[f]
              /\ reported[1].fixedValue = normalised
              /\ (\A i \in 1..Len(fixOut1.fixes) :
                    fixOut1.fixes[i].field = f => fixOut1.fixes[i].fixType = "whitespace")
                 => fixOut1.fixedData[f] = normalised
         ELSE reported = <<>>


(***************************************************************************)
(* applyRule: custom description rule and absent values                    *)
(***************************************************************************)
\* applyRule has returned for a rule that satisfies Is
RuleReturned(Is(_)) ==
  /\ callIn.fn = "applyRule"
  /\ Is(callIn.rule)
  /\ callOut.returned
  /\ ~callOut.threw

\* the value of the rule's field is absent, null, or a string that is empty
\* after trimming
CellIsAbsent ==
  LET data == callIn.row.originalData
      f == callIn.rule.fieldName
  IN \/ f \notin DOMAIN data
     \/ data[f] = NullValue
     \/ IsString(data[f]) /\ \A i \in 1..Len(data[f]) : data[f][i] \in WhiteSpace

\* the messages of the issues the call returned
MessagesReturned == [i \in 1..Len(callOut.value) |-> callOut.value[i].message]

IsDescriptionRule(rule) ==
  rule.ruleType = "custom" /\ rule.ruleConfig.function = "validateDescription"

\* C22: applyRule with a custom validateDescription rule yields exactly the
\* one 'required' issue when the description is absent or blank, and
\* otherwise one issue per violation: longer than 2000 characters, contains
\* an HTML-tag-shaped substring.
C22_DescriptionIssues ==
  RuleReturned(IsDescriptionRule) =>
    IF CellIsAbsent
    THEN MessagesReturned = <<"Description is required">>
    ELSE LET d == Trim(ToStr(callIn.row.originalData[callIn.rule.fieldName]))
         IN MessagesReturned =
              (IF Len(d) > MaxDescriptionLength
               THEN <<"Description must not exceed 2000 characters">> ELSE <<>>)
              \o (IF HasHtmlTag(d)
                  THEN <<"Description must not contain HTML tags">> ELSE <<>>)

IsRequiredRule(rule) == rule.ruleType = "required"

IsSkippingRule(rule) == rule.ruleType \in {"max_length", "regex", "range", "lookup"}

\* C23: a required rule yields exactly one issue when the field's value is
\* absent, null or a blank string and none otherwise; max_length, regex,
\* range and lookup rules return no issue for such a value.
C23_RequiredAndAbsentValues ==
  /\ RuleReturned(IsRequiredRule) =>
       IF CellIsAbsent
       THEN /\ Len(callOut.value) = 1
            /\ callOut.value[1].field = callIn.rule.fieldName
            /\ callOut.value[1].rule = callIn.rule.id
       ELSE callOut.value = <<>>
  /\ (callIn.fn = "applyRule" /\ IsSkippingRule(callIn.rule) /\ callOut.returned
        /\ CellIsAbsent)
       => (~callOut.threw /\ callOut.value = <<>>)

\* a required rule has flagged a cell that holds only white space
C23_Witness ==
  /\ RuleReturned(IsRequiredRule)
  /\ callIn.rule.fieldName \in DOMAIN callIn.row.originalData
  /\ callIn.row.originalData[callIn.rule.fieldName] = <<"\t", " ">>
  /\ Len(callOut.value) = 1


(***************************************************************************)
(* inferDepartment: gender words and clothing types                        *)
(***************************************************************************)
\* the words of a text: its maximal runs without a space
Words(text) ==
  LET IsWord(i, j) ==
        /\ i <= j
        /\ \A k \in i..j : text[k] # " "
        /\ i = 1 \/ text[i - 1] = " "
        /\ j = Len(text) \/ text[j + 1] = " "
  IN {SubSeq(text, p[1], p[2]) :
        p \in {q \in (1..Len(text)) \X (1..Len(text)) : IsWord(q[1], q[2])}}

\* some word of the text holds a men's gender word and no women's one
HasSeparateMensWord(text) ==
  \E w \in Words(text) :
    SomeIncluded(Indicators.mens, w) /\ ~SomeIncluded(Indicators.womens, w)

\* C24: on a record without a unisex, baby or kids indicator whose text
\* holds a women's gender word and no separate men's gender word,
\* inferDepartment returns 'womens', whatever the clothing type is and also
\* without one.
C24_GenderWordBeforeClothingType ==
  (callIn.fn = "inferDepartment" /\ callOut.returned) =>
    LET text == AllText(callIn.data)
    IN (/\ ~SomeIncluded(Indicators.unisex \cup Indicators.baby \cup Indicators.kids, text)
        /\ ~SomeIncluded(Indicators.kidsSizes, LowerText(callIn.data, "size_name", "size"))
        /\ SomeIncluded(Indicators.womens, text)
        /\ ~HasSeparateMensWord(text))
       => callOut.value = Department.womens


(***************************************************************************)
(* validate: which enrichment suggestions become issues                    *)
(***************************************************************************)
\* the recommended optional fields that are absent or empty on a record, in
\* the order of the list
MissingOptional(data) ==
  SelectSeq(RECOMMENDED_OPTIONAL_FIELDS,
            LAMBDA f : f \notin DOMAIN data \/ data[f] \in {NullValue, <<>>})

\* the issues of a list that come from enrichment suggestions
FromSuggestions(issues) ==
  SelectSeq(issues, LAMBDA x : x.rule = "optional_field_suggestion")

\* C25: once validate has completed, each row carries exactly one info issue
\* with rule 'optional_field_suggestion' for each recommended optional field
\* that is absent or empty on it and none for a field that is present, and
\* no issue of a row comes from another enrichment suggestion.
C25_OnlyOptionalFieldSuggestions ==
  \A u \in Uploads :
    run[u].pc = "done" =>
      \A i \in 1..Len(rowsOf[u]) :
        LET row == rowsOf[u][i]
            missing == MissingOptional(DataOf(row))
            suggested == FromSuggestions(row.validationResults)
        IN /\ Len(suggested) = Len(missing)
           /\ \A k \in 1..Len(missing) :
                suggested[k].field = missing[k] /\ suggested[k].severity = "info"
           /\ \A k \in 1..Len(row.validationResults) :
                LET x == row.validationResults[k]
                IN \/ x.rule = "optional_field_suggestion"
                   \/ x.rule \in RuleIds
                   \/ x.rule \in {"variation_theme_consistency",
                                  "parent_child_referential_integrity"}

\* a completed run with a row that got a department, an item type and a
\* size suggestion and optional-field issues, and a row with every
\* recommended field present and no such issue
C25_Witness ==
  /\ run["U1"].pc = "done"
  /\ \E i, j \in 1..Len(rowsOf["U1"]) :
       LET data == DataOf(rowsOf["U1"][i])
       IN /\ InferDepartment(data) = Department.womens
          /\ InferItemType(data) # NullValue
          /\ ~Truthy(data, "department_name")
          /\ MappingFound(GetSizeMapping(dbLookup, data["size_name"], data["brand_name"]))
          /\ Len(FromSuggestions(rowsOf["U1"][i].validationResults)) = 10
          /\ MissingOptional(DataOf(rowsOf["U1"][j])) = <<>>
          /\ FromSuggestions(rowsOf["U1"][j].validationResults) = <<>>


(***************************************************************************)
(* Check digits: the auto-fix engine against the validator                 *)
(***************************************************************************)
\* the check_digit fixes an applyAutoFix call returned
CheckDigitFixes ==
  SelectSeq(callOut.value.fixes, LAMBDA x : x.fixType = "check_digit")

\* C26: an external_product_id that applyAutoFix returns with a check_digit
\* fix is accepted by validateBarcodeCheckDigit, and for a string of 12 or 13
\* digits the validator accepts exactly the last digit that
\* calculateCheckDigit computes for the digits before it.
C26_FixedCheckDigitIsValid ==
  /\ (callIn.fn = "applyAutoFix" /\ callOut.returned /\ CheckDigitFixes # <<>>)
       => /\ ValidateBarcodeCheckDigit(callOut.value.fixedData["external_product_id"])
          /\ callOut.value.fixedData["external_product_id"] = CheckDigitFixes[1].fixedValue
  /\ (callIn.fn = "validateBarcodeCheckDigit" /\ callOut.returned
        /\ IsBarcodeShaped(callIn.barcode))
       => LET n == Len(callIn.barcode)
          IN callOut.value <=>
               (CalculateCheckDigit(SubSeq(callIn.barcode, 1, n - 1)) = <<callIn.barcode[n]>>)

\* applyAutoFix has replaced the last digit of a 13-digit code
C26_Witness ==
  /\ callIn.fn = "applyAutoFix"
  /\ callOut.returned
  /\ Len(CheckDigitFixes) = 1
  /\ Len(callIn.data["external_product_id"]) = 13
  /\ Len(callOut.value.fixedData["external_product_id"]) = 13
  /\ callOut.value.fixedData["external_product_id"] # callIn.data["external_product_id"]


(***************************************************************************)
(* validateParentChildRelationships: row order and shared SKUs             *)
(***************************************************************************)
\* C27: validateParentChildRelationships attaches the same list of issues to
\* each row whatever the order of the rows is.
C27_OrderIndependent ==
  crossAgain.returned =>
    \A i \in 1..Len(crossRows) :
      MapGet(crossAgain.value, crossRows[i].id) = CrossIssuesOf(i)

\* C28: the row whose variation_theme a child's is compared with is marked
\* parent and has the child's parent_sku as item_sku.
C28_ParentRowIsParent ==
  crossDone =>
    \A c \in 1..Len(crossRows) :
      LET data == CrossData(c)
          parentSkuValue == Trim(data["parent_sku"])
      IN (/\ IsChildRow(c)
          /\ Truthy(data, "parent_sku")
          /\ parentSkuValue \in ParentSkus(crossRows))
         => LET parentData == DataOf(SkuToRow(crossRows, parentSkuValue))
            IN /\ MarkedAs(parentData, Str.parent)
               /\ Trim(parentData["item_sku"]) = parentSkuValue


(***************************************************************************)
(* Mapping templates: POST /api/mappings and PUT /api/mappings/:id         *)
(* Each request is a record in requests; pc is the await it stands at.     *)
(* The template's name and mappings do not bear on isDefault: a request    *)
(* whose name or mappings are rejected ends with 400 before any write.     *)
(***************************************************************************)
\* req.user of the requests: two administrators and a user
Users ==
  {[id |-> "a1", role |-> "admin"], [id |-> "a2", role |-> "admin"],
   [id |-> "u1", role |-> "user"]}

\* isDefault of a request body: true, false, or not given
BodyFlags == {"true", "false", "undefined"}

\* the rows of the table before the requests: one of an administrator, which
\* may be the default, one of the user
InitMappings ==
  /\ IdleExcept("mappings")
  /\ \E d \in BOOLEAN :
       templates = [t \in {"t1", "t2"} |->
                      IF t = "t1" THEN [userId |-> "a1", isDefault |-> d]
                      ELSE [userId |-> "u1", isDefault |-> FALSE]]
  /\ requests = <<>>

\* canSetDefault && isDefault === true
TemplateIsDefault(r) == r.user.role = "admin" /\ r.isDefault = "true"

\* res.status(code).json(...)
Responded(r, code) == [r EXCEPT !.pc = "done", !.status = code]

\* prisma.mappingTemplate.updateMany({where: {isDefault: true}, data: {isDefault: false}})
UnsetDefaults(table) == [t \in DOMAIN table |-> [table[t] EXCEPT !.isDefault = FALSE]]

\* POST /api/mappings arrives; valid tells whether name and mappings pass
PostMapping(user, isDefault, valid) ==
  /\ Len(requests) < MaxRequests
  /\ LET r == [kind |-> "post", user |-> user, isDefault |-> isDefault,
               id |-> "n" \o ToString(Len(requests) + 1), status |-> 0, pc |-> "start"]
     IN requests' = Append(requests,
                           IF ~valid THEN Responded(r, 400)
                           ELSE IF TemplateIsDefault(r) THEN [r EXCEPT !.pc = "unset"]
                           ELSE [r EXCEPT !.pc = "create"])
  /\ UNCHANGED <<templates, callVars, authVars, engineVars, crossVars, fixVars, heapVars>>

\* the updateMany of a request has been awaited
UnsetOtherDefaults(i) ==
  /\ requests[i].pc = "unset"
  /\ templates' = UnsetDefaults(templates)
  /\ requests' = [requests EXCEPT
                    ![i].pc = IF requests[i].kind = "post" THEN "create" ELSE "update"]
  /\ UNCHANGED <<callVars, authVars, engineVars, crossVars, fixVars, heapVars>>

\* prisma.mappingTemplate.create
CreateTemplate(i) ==
  /\ requests[i].pc = "create"
  /\ LET r == requests[i]
     IN /\ templates' = [t \in DOMAIN templates \cup {r.id} |->
                           IF t = r.id
                           THEN [userId |-> r.user.id, isDefault |-> TemplateIsDefault(r)]
                           ELSE templates[t]]
        /\ requests' = [requests EXCEPT ![i] = Responded(r, 201)]
  /\ UNCHANGED <<callVars, authVars, engineVars, crossVars, fixVars, heapVars>>

\* PUT /api/mappings/:id arrives
PutMapping(user, id, isDefault, valid) ==
  /\ Len(requests) < MaxRequests
  /\ requests' = Append(requests,
                        [kind |-> "put", user |-> user, isDefault |-> isDefault, id |-> id,
                         valid |-> valid, status |-> 0, pc |-> "find"])
  /\ UNCHANGED <<templates, callVars, authVars, engineVars, crossVars, fixVars, heapVars>>

\* findUnique has been awaited: 404, 403, 400, or on to the writes
FindTemplate(i) ==
  /\ requests[i].pc = "find"
  /\ LET r == requests[i]
     IN requests' =
          [requests EXCEPT ![i] =
             IF r.id \notin DOMAIN templates THEN Responded(r, 404)
             ELSE LET existingTemplate == templates[r.id]
                  IN IF existingTemplate.userId # r.user.id /\ r.user.role # "admin"
                     THEN Responded(r, 403)
                     ELSE IF ~r.valid THEN Responded(r, 400)
                     ELSE IF TemplateIsDefault(r) /\ ~existingTemplate.isDefault
                     THEN [r EXCEPT !.pc = "unset"]
                     ELSE [r EXCEPT !.pc = "update"]]
  /\ UNCHANGED <<templates, callVars, authVars, engineVars, crossVars, fixVars, heapVars>>

\* prisma.mappingTemplate.update with updateData
UpdateTemplate(i) ==
  /\ requests[i].pc = "update"
  /\ LET r == requests[i]
     IN /\ templates' = IF r.user.role = "admin" /\ r.isDefault # "undefined"
                        THEN [templates EXCEPT ![r.id].isDefault = (r.isDefault = "true")]
                        ELSE templates
        /\ requests' = [requests EXCEPT ![i] = Responded(r, 200)]
  /\ UNCHANGED <<callVars, authVars, engineVars, crossVars, fixVars, heapVars>>

NextMappings ==
  \/ \E user \in Users, isDefault \in BodyFlags, valid \in BOOLEAN :
       PostMapping(user, isDefault, valid)
  \/ \E user \in Users, id \in DOMAIN templates \cup {"t9"},
        isDefault \in BodyFlags, valid \in BOOLEAN :
       PutMapping(user, id, isDefault, valid)
  \/ \E i \in DOMAIN requests : UnsetOtherDefaults(i)
  \/ \E i \in DOMAIN requests : CreateTemplate(i)
  \/ \E i \in DOMAIN requests : FindTemplate(i)
  \/ \E i \in DOMAIN requests : UpdateTemplate(i)

SpecMappings == InitMappings /\ [][NextMappings]_vars

\* the templates that are the default
Defaults == {t \in DOMAIN templates : templates[t].isDefault}

\* C29: at most one mapping template has isDefault = true, whatever create
\* and update requests have been made and however their steps interleave.
C29_AtMostOneDefault == Cardinality(Defaults) <= 1



(***************************************************************************)
(* The seeded custom rules and the dispatcher                              *)
(***************************************************************************)
\* applyRule has returned for a custom rule that names a seeded function
SeededRuleReturned ==
  /\ RuleReturned(LAMBDA r : r.ruleType = "custom")
  /\ callIn.rule.ruleConfig.function \in SeedCustomFunctions

\* the record's cell is a 12-digit string whose last digit is not the check
\* digit of the eleven before it
WrongCheckDigit12(data, f) ==
  /\ f \in DOMAIN data
  /\ IsBarcodeShaped(data[f])
  /\ Len(data[f]) = 12
  /\ ~CheckDigitMatches(data[f])

\* C30: the function name of every seeded custom rule applyRule is called
\* with is one it dispatches on, and the seeded UPC/EAN rule gives a record whose
\* external_product_id is a 12-digit string with a wrong check digit its
\* error.
C30_SeededFunctionsDispatched ==
  /\ SeededRuleReturned => callIn.rule.ruleConfig.function \in DispatchedFunctions
  /\ (/\ SeededRuleReturned
      /\ callIn.rule.fieldName = "external_product_id"
      /\ WrongCheckDigit12(DataOf(callIn.row), "external_product_id"))
       => /\ Len(callOut.value) = 1
          /\ callOut.value[1].severity = "error"

====
